---------------------------- MODULE Spec2Model ----------------------------
(***************************************************************************)
(* Model of the scene-plan core of create-prompt-tool:                     *)
(*   parseDurationToSeconds, getAiClient and generatePromptFromRequest     *)
(*   (services/geminiService.ts, scene-planning variant).                  *)
(*                                                                         *)
(* Representation.                                                         *)
(*   - A JavaScript string is the sequence of its UTF-16 code units:       *)
(*     "1m 30s" is <<"1","m"," ","3","0","s">>.  A code unit is written    *)
(*     as the character itself when it is U+0020..U+007E (but not the      *)
(*     grave accent U+0060) or U+00A1..U+00FF (but not U+00AD), as "\t",   *)
(*     "\n", "\f", "\r" for these four, and as the six characters          *)
(*     \uXXXX (four lower-case hexadecimal digits, in TLA+ "\\uXXXX")      *)
(*     for every other code unit: "\\u00a0" is the no-break space.         *)
(*   - A JavaScript number is an IEEE-754 binary64 value, modelled exactly:*)
(*     [k |-> "num", neg |-> sign, m |-> mantissa, e |-> exponent] stands  *)
(*     for (-1)^neg * m * 2^e, with m a natural number kept in canonical   *)
(*     form (m odd, or m = 0 and e = 0); k = "inf" and k = "nan" are the   *)
(*     non-finite values.  A mantissa is a little-endian sequence of limbs *)
(*     in base 2^15 (TLC's integers are 32 bits wide), <<>> being zero.    *)
(***************************************************************************)
EXTENDS Integers, Sequences, FiniteSets, TLC

(***************************************************************************)
(* Natural numbers of arbitrary size (the mantissas of Number values).     *)
(***************************************************************************)
LimbBits == 15

LimbBase == 32768

Max(a, b) == IF a >= b THEN a ELSE b

Min(a, b) == IF a <= b THEN a ELSE b

RECURSIVE Pow2(_)
Pow2(n) == IF n = 0 THEN 1 ELSE 2 * Pow2(n - 1)

\* x without its leading (most significant) zero limbs
BNorm(x) ==
  LET nz == {i \in 1..Len(x) : x[i] # 0}
  IN  IF nz = {} THEN <<>>
      ELSE SubSeq(x, 1, CHOOSE i \in nz : \A j \in nz : i >= j)

RECURSIVE BFromInt(_)
BFromInt(n) ==
  IF n = 0 THEN <<>> ELSE <<n % LimbBase>> \o BFromInt(n \div LimbBase)

Limb(x, i) == IF i >= 1 /\ i <= Len(x) THEN x[i] ELSE 0

\* Limbs lo..hi of x + y with carry c in: [s |-> limbs, c |-> carry out].
\* The range is halved at each step, the low half first.
RECURSIVE BAddRange(_, _, _, _, _)
BAddRange(x, y, lo, hi, c) ==
  IF lo > hi THEN [s |-> <<>>, c |-> c]
  ELSE IF lo = hi THEN
    LET t == Limb(x, lo) + Limb(y, lo) + c
    IN  [s |-> <<t % LimbBase>>, c |-> t \div LimbBase]
  ELSE LET mid  == (lo + hi) \div 2
           low  == BAddRange(x, y, lo, mid, c)
           high == BAddRange(x, y, mid + 1, hi, low.c)
       IN  [s |-> low.s \o high.s, c |-> high.c]

BAdd(x, y) ==
  LET r == BAddRange(x, y, 1, Max(Len(x), Len(y)), 0)
  IN  IF r.c = 0 THEN r.s ELSE r.s \o <<r.c>>

\* Limbs lo..hi of x - y with borrow c in
RECURSIVE BSubRange(_, _, _, _, _)
BSubRange(x, y, lo, hi, c) ==
  IF lo > hi THEN [s |-> <<>>, c |-> c]
  ELSE IF lo = hi THEN
    LET t == Limb(x, lo) - Limb(y, lo) - c
    IN  [s |-> <<(t + LimbBase) % LimbBase>>, c |-> IF t < 0 THEN 1 ELSE 0]
  ELSE LET mid  == (lo + hi) \div 2
           low  == BSubRange(x, y, lo, mid, c)
           high == BSubRange(x, y, mid + 1, hi, low.c)
       IN  [s |-> low.s \o high.s, c |-> high.c]

\* x - y for x >= y
BSub(x, y) == BNorm(BSubRange(x, y, 1, Len(x), 0).s)

\* Limbs lo..hi of x * k with carry c in
RECURSIVE BMulRange(_, _, _, _, _)
BMulRange(x, k, lo, hi, c) ==
  IF lo > hi THEN [s |-> <<>>, c |-> c]
  ELSE IF lo = hi THEN
    LET t == x[lo] * k + c
    IN  [s |-> <<t % LimbBase>>, c |-> t \div LimbBase]
  ELSE LET mid  == (lo + hi) \div 2
           low  == BMulRange(x, k, lo, mid, c)
           high == BMulRange(x, k, mid + 1, hi, low.c)
       IN  [s |-> low.s \o high.s, c |-> high.c]

\* x * k for 0 <= k < LimbBase
BMulSmall(x, k) ==
  LET r == BMulRange(x, k, 1, Len(x), 0)
  IN  BNorm(IF r.c = 0 THEN r.s ELSE r.s \o <<r.c>>)

\* Limbs lo..hi of x divided by d with remainder r in, from the most
\* significant limb down: q holds the quotient's limbs, the top one first
RECURSIVE BDivRange(_, _, _, _, _)
BDivRange(x, d, lo, hi, r) ==
  IF lo > hi THEN [q |-> <<>>, r |-> r]
  ELSE IF lo = hi THEN
    LET t == r * LimbBase + x[lo]
    IN  [q |-> <<t \div d>>, r |-> t % d]
  ELSE LET mid  == (lo + hi) \div 2
           high == BDivRange(x, d, mid + 1, hi, r)
           low  == BDivRange(x, d, lo, mid, high.r)
       IN  [q |-> high.q \o low.q, r |-> low.r]

Reverse(s) == [i \in 1..Len(s) |-> s[Len(s) + 1 - i]]

\* Division by 1 <= d < LimbBase: [q |-> quotient, r |-> remainder]
BDivSmall(x, d) ==
  LET res == BDivRange(x, d, 1, Len(x), 0)
  IN  [q |-> BNorm(Reverse(res.q)), r |-> res.r]

Zeros(n) == [i \in 1..n |-> 0]

\* x * 2^n
BShl(x, n) ==
  IF x = <<>> THEN <<>>
  ELSE Zeros(n \div LimbBits) \o BMulSmall(x, Pow2(n % LimbBits))

\* floor(x / 2^n)
BShr(x, n) ==
  IF n \div LimbBits >= Len(x) THEN <<>>
  ELSE BDivSmall(SubSeq(x, n \div LimbBits + 1, Len(x)), Pow2(n % LimbBits)).q

RECURSIVE IntBitLen(_)
IntBitLen(n) == IF n = 0 THEN 0 ELSE 1 + IntBitLen(n \div 2)

\* number of significant bits of a normalised x
BitLen(x) ==
  IF x = <<>> THEN 0 ELSE (Len(x) - 1) * LimbBits + IntBitLen(x[Len(x)])

\* bit i (0 = least significant) of x
BBit(x, i) ==
  IF i < 0 THEN 0
  ELSE (Limb(x, i \div LimbBits + 1) \div Pow2(i % LimbBits)) % 2

\* whether one of the n lowest bits of x is set
BLowNonzero(x, n) ==
  IF n <= 0 THEN FALSE
  ELSE \/ \E j \in 1..Min(n \div LimbBits, Len(x)) : x[j] # 0
       \/ Limb(x, n \div LimbBits + 1) % Pow2(n % LimbBits) # 0

RECURSIVE IntTrailingZeros(_)
IntTrailingZeros(n) == IF n % 2 = 1 THEN 0 ELSE 1 + IntTrailingZeros(n \div 2)

\* number of trailing zero bits of a normalised x # 0
BTrailingZeros(x) ==
  LET z == CHOOSE i \in 1..Len(x) : x[i] # 0 /\ \A j \in 1..(i - 1) : x[j] = 0
  IN  (z - 1) * LimbBits + IntTrailingZeros(x[z])

\* -1, 0, 1 as x < y, x = y, x > y (normalised)
BCmp(x, y) ==
  IF Len(x) < Len(y) THEN -1
  ELSE IF Len(x) > Len(y) THEN 1
  ELSE LET df == {i \in 1..Len(x) : x[i] # y[i]}
       IN  IF df = {} THEN 0
           ELSE LET top == CHOOSE i \in df : \A j \in df : i >= j
                IN  IF x[top] < y[top] THEN -1 ELSE 1

(***************************************************************************)
(* IEEE-754 binary64 (the JavaScript Number type).                         *)
(***************************************************************************)
MantBits == 53

MinExp == -1074

MaxTop == 1024

NaN == [k |-> "nan", neg |-> FALSE, m |-> <<>>, e |-> 0]

Infinity(neg) == [k |-> "inf", neg |-> neg, m |-> <<>>, e |-> 0]

Zero(neg) == [k |-> "num", neg |-> neg, m |-> <<>>, e |-> 0]

\* the canonical form of (-1)^neg * M * 2^e, M exactly representable
Canon(neg, M, e) ==
  IF M = <<>> THEN Zero(neg)
  ELSE LET tz == BTrailingZeros(M)
       IN  [k |-> "num", neg |-> neg, m |-> BShr(M, tz), e |-> e + tz]

\* (-1)^neg * M * 2^e rounded to the nearest binary64, ties to even
RoundToDouble(neg, M, e) ==
  LET L == BitLen(M)
      r == Max(L - MantBits, MinExp - e)
  IN  IF L = 0 THEN Zero(neg)
      ELSE IF r <= 0 THEN
        (IF L + e > MaxTop THEN Infinity(neg) ELSE Canon(neg, M, e))
      ELSE LET q    == BShr(M, r)
               half == BBit(M, r - 1) = 1
               up   == half /\ (BLowNonzero(M, r - 1) \/ BBit(q, 0) = 1)
               q2   == IF up THEN BNorm(BAdd(q, <<1>>)) ELSE q
           IN  IF BitLen(q2) + e + r > MaxTop THEN Infinity(neg)
               ELSE Canon(neg, q2, e + r)

DblFromNat(n) == Canon(FALSE, BFromInt(n), 0)

isNaN(x) == x.k = "nan"

isFinite(x) == x.k = "num"

IsZero(x) == x.k = "num" /\ x.m = <<>>

\* magnitudes of two finite values: -1, 0, 1
CmpMag(x, y) ==
  IF x.m = <<>> /\ y.m = <<>> THEN 0
  ELSE IF x.m = <<>> THEN -1
  ELSE IF y.m = <<>> THEN 1
  ELSE LET tx == BitLen(x.m) + x.e
           ty == BitLen(y.m) + y.e
           lo == Min(x.e, y.e)
       IN  IF tx < ty THEN -1
           ELSE IF tx > ty THEN 1
           ELSE BCmp(BShl(x.m, x.e - lo), BShl(y.m, y.e - lo))

\* x < y on Number values (false when either is NaN)
DblLess(x, y) ==
  IF isNaN(x) \/ isNaN(y) THEN FALSE
  ELSE IF x.k = "inf" THEN x.neg /\ ~(y.k = "inf" /\ y.neg)
  ELSE IF y.k = "inf" THEN ~y.neg
  ELSE IF IsZero(x) /\ IsZero(y) THEN FALSE
  ELSE IF x.neg /\ ~y.neg THEN TRUE
  ELSE IF ~x.neg /\ y.neg THEN FALSE
  ELSE IF x.neg THEN CmpMag(x, y) = 1
  ELSE CmpMag(x, y) = -1

\* x <= y on Number values (false when either is NaN)
DblLeq(x, y) ==
  IF isNaN(x) \/ isNaN(y) THEN FALSE ELSE ~DblLess(y, x)

\* x + y
DblAdd(x, y) ==
  IF isNaN(x) \/ isNaN(y) THEN NaN
  ELSE IF x.k = "inf" /\ y.k = "inf" THEN (IF x.neg = y.neg THEN x ELSE NaN)
  ELSE IF x.k = "inf" THEN x
  ELSE IF y.k = "inf" THEN y
  ELSE IF IsZero(x) /\ IsZero(y) THEN Zero(x.neg /\ y.neg)
  ELSE IF IsZero(x) THEN y
  ELSE IF IsZero(y) THEN x
  ELSE LET lo == Min(x.e, y.e)
           a  == BShl(x.m, x.e - lo)
           b  == BShl(y.m, y.e - lo)
       IN  IF x.neg = y.neg THEN RoundToDouble(x.neg, BNorm(BAdd(a, b)), lo)
           ELSE IF BCmp(a, b) = 0 THEN Zero(FALSE)
           ELSE IF BCmp(a, b) = 1 THEN RoundToDouble(x.neg, BSub(a, b), lo)
           ELSE RoundToDouble(y.neg, BSub(b, a), lo)

\* x * n for a natural number 0 < n < LimbBase
DblMulNat(x, n) ==
  IF x.k # "num" THEN x
  ELSE RoundToDouble(x.neg, BMulSmall(x.m, n), x.e)

\* x / 2^n
DblDivPow2(x, n) ==
  IF x.k # "num" THEN x
  ELSE RoundToDouble(x.neg, x.m, x.e - n)

\* Math.ceil(x)
MathCeil(x) ==
  IF x.k # "num" \/ x.m = <<>> \/ x.e >= 0 THEN x
  ELSE IF x.neg THEN Canon(TRUE, BShr(x.m, 0 - x.e), 0)
  ELSE Canon(FALSE, BNorm(BAdd(BShr(x.m, 0 - x.e), <<1>>)), 0)

(***************************************************************************)
(* JavaScript strings: sequences of code units.                            *)
(***************************************************************************)
DigitChars == <<"0", "1", "2", "3", "4", "5", "6", "7", "8", "9">>

\* the code units of the Basic Multilingual Plane that toLowerCase maps
\* to one other code unit, and (LowerChars) what it maps them to; the case
\* data here and below are those of Unicode 17.0
UpperChars ==
  <<
    "A", "B", "C", "D", "E", "F", "G", "H", "I", "J", "K", "L", "M", "N", "O",
    "P", "Q", "R", "S", "T", "U", "V", "W", "X", "Y", "Z", "À", "Á", "Â", "Ã",
    "Ä", "Å", "Æ", "Ç", "È", "É", "Ê", "Ë", "Ì", "Í", "Î", "Ï", "Ð", "Ñ", "Ò",
    "Ó", "Ô", "Õ", "Ö", "Ø", "Ù", "Ú", "Û", "Ü", "Ý", "Þ", "\\u0100",
    "\\u0102", "\\u0104", "\\u0106", "\\u0108", "\\u010a", "\\u010c",
    "\\u010e", "\\u0110", "\\u0112", "\\u0114", "\\u0116", "\\u0118",
    "\\u011a", "\\u011c", "\\u011e", "\\u0120", "\\u0122", "\\u0124",
    "\\u0126", "\\u0128", "\\u012a", "\\u012c", "\\u012e", "\\u0132",
    "\\u0134", "\\u0136", "\\u0139", "\\u013b", "\\u013d", "\\u013f",
    "\\u0141", "\\u0143", "\\u0145", "\\u0147", "\\u014a", "\\u014c",
    "\\u014e", "\\u0150", "\\u0152", "\\u0154", "\\u0156", "\\u0158",
    "\\u015a", "\\u015c", "\\u015e", "\\u0160", "\\u0162", "\\u0164",
    "\\u0166", "\\u0168", "\\u016a", "\\u016c", "\\u016e", "\\u0170",
    "\\u0172", "\\u0174", "\\u0176", "\\u0178", "\\u0179", "\\u017b",
    "\\u017d", "\\u0181", "\\u0182", "\\u0184", "\\u0186", "\\u0187",
    "\\u0189", "\\u018a", "\\u018b", "\\u018e", "\\u018f", "\\u0190",
    "\\u0191", "\\u0193", "\\u0194", "\\u0196", "\\u0197", "\\u0198",
    "\\u019c", "\\u019d", "\\u019f", "\\u01a0", "\\u01a2", "\\u01a4",
    "\\u01a6", "\\u01a7", "\\u01a9", "\\u01ac", "\\u01ae", "\\u01af",
    "\\u01b1", "\\u01b2", "\\u01b3", "\\u01b5", "\\u01b7", "\\u01b8",
    "\\u01bc", "\\u01c4", "\\u01c5", "\\u01c7", "\\u01c8", "\\u01ca",
    "\\u01cb", "\\u01cd", "\\u01cf", "\\u01d1", "\\u01d3", "\\u01d5",
    "\\u01d7", "\\u01d9", "\\u01db", "\\u01de", "\\u01e0", "\\u01e2",
    "\\u01e4", "\\u01e6", "\\u01e8", "\\u01ea", "\\u01ec", "\\u01ee",
    "\\u01f1", "\\u01f2", "\\u01f4", "\\u01f6", "\\u01f7", "\\u01f8",
    "\\u01fa", "\\u01fc", "\\u01fe", "\\u0200", "\\u0202", "\\u0204",
    "\\u0206", "\\u0208", "\\u020a", "\\u020c", "\\u020e", "\\u0210",
    "\\u0212", "\\u0214", "\\u0216", "\\u0218", "\\u021a", "\\u021c",
    "\\u021e", "\\u0220", "\\u0222", "\\u0224", "\\u0226", "\\u0228",
    "\\u022a", "\\u022c", "\\u022e", "\\u0230", "\\u0232", "\\u023a",
    "\\u023b", "\\u023d", "\\u023e", "\\u0241", "\\u0243", "\\u0244",
    "\\u0245", "\\u0246", "\\u0248", "\\u024a", "\\u024c", "\\u024e",
    "\\u0370", "\\u0372", "\\u0376", "\\u037f", "\\u0386", "\\u0388",
    "\\u0389", "\\u038a", "\\u038c", "\\u038e", "\\u038f", "\\u0391",
    "\\u0392", "\\u0393", "\\u0394", "\\u0395", "\\u0396", "\\u0397",
    "\\u0398", "\\u0399", "\\u039a", "\\u039b", "\\u039c", "\\u039d",
    "\\u039e", "\\u039f", "\\u03a0", "\\u03a1", "\\u03a3", "\\u03a4",
    "\\u03a5", "\\u03a6", "\\u03a7", "\\u03a8", "\\u03a9", "\\u03aa",
    "\\u03ab", "\\u03cf", "\\u03d8", "\\u03da", "\\u03dc", "\\u03de",
    "\\u03e0", "\\u03e2", "\\u03e4", "\\u03e6", "\\u03e8", "\\u03ea",
    "\\u03ec", "\\u03ee", "\\u03f4", "\\u03f7", "\\u03f9", "\\u03fa",
    "\\u03fd", "\\u03fe", "\\u03ff", "\\u0400", "\\u0401", "\\u0402",
    "\\u0403", "\\u0404", "\\u0405", "\\u0406", "\\u0407", "\\u0408",
    "\\u0409", "\\u040a", "\\u040b", "\\u040c", "\\u040d", "\\u040e",
    "\\u040f", "\\u0410", "\\u0411", "\\u0412", "\\u0413", "\\u0414",
    "\\u0415", "\\u0416", "\\u0417", "\\u0418", "\\u0419", "\\u041a",
    "\\u041b", "\\u041c", "\\u041d", "\\u041e", "\\u041f", "\\u0420",
    "\\u0421", "\\u0422", "\\u0423", "\\u0424", "\\u0425", "\\u0426",
    "\\u0427", "\\u0428", "\\u0429", "\\u042a", "\\u042b", "\\u042c",
    "\\u042d", "\\u042e", "\\u042f", "\\u0460", "\\u0462", "\\u0464",
    "\\u0466", "\\u0468", "\\u046a", "\\u046c", "\\u046e", "\\u0470",
    "\\u0472", "\\u0474", "\\u0476", "\\u0478", "\\u047a", "\\u047c",
    "\\u047e", "\\u0480", "\\u048a", "\\u048c", "\\u048e", "\\u0490",
    "\\u0492", "\\u0494", "\\u0496", "\\u0498", "\\u049a", "\\u049c",
    "\\u049e", "\\u04a0", "\\u04a2", "\\u04a4", "\\u04a6", "\\u04a8",
    "\\u04aa", "\\u04ac", "\\u04ae", "\\u04b0", "\\u04b2", "\\u04b4",
    "\\u04b6", "\\u04b8", "\\u04ba", "\\u04bc", "\\u04be", "\\u04c0",
    "\\u04c1", "\\u04c3", "\\u04c5", "\\u04c7", "\\u04c9", "\\u04cb",
    "\\u04cd", "\\u04d0", "\\u04d2", "\\u04d4", "\\u04d6", "\\u04d8",
    "\\u04da", "\\u04dc", "\\u04de", "\\u04e0", "\\u04e2", "\\u04e4",
    "\\u04e6", "\\u04e8", "\\u04ea", "\\u04ec", "\\u04ee", "\\u04f0",
    "\\u04f2", "\\u04f4", "\\u04f6", "\\u04f8", "\\u04fa", "\\u04fc",
    "\\u04fe", "\\u0500", "\\u0502", "\\u0504", "\\u0506", "\\u0508",
    "\\u050a", "\\u050c", "\\u050e", "\\u0510", "\\u0512", "\\u0514",
    "\\u0516", "\\u0518", "\\u051a", "\\u051c", "\\u051e", "\\u0520",
    "\\u0522", "\\u0524", "\\u0526", "\\u0528", "\\u052a", "\\u052c",
    "\\u052e", "\\u0531", "\\u0532", "\\u0533", "\\u0534", "\\u0535",
    "\\u0536", "\\u0537", "\\u0538", "\\u0539", "\\u053a", "\\u053b",
    "\\u053c", "\\u053d", "\\u053e", "\\u053f", "\\u0540", "\\u0541",
    "\\u0542", "\\u0543", "\\u0544", "\\u0545", "\\u0546", "\\u0547",
    "\\u0548", "\\u0549", "\\u054a", "\\u054b", "\\u054c", "\\u054d",
    "\\u054e", "\\u054f", "\\u0550", "\\u0551", "\\u0552", "\\u0553",
    "\\u0554", "\\u0555", "\\u0556", "\\u10a0", "\\u10a1", "\\u10a2",
    "\\u10a3", "\\u10a4", "\\u10a5", "\\u10a6", "\\u10a7", "\\u10a8",
    "\\u10a9", "\\u10aa", "\\u10ab", "\\u10ac", "\\u10ad", "\\u10ae",
    "\\u10af", "\\u10b0", "\\u10b1", "\\u10b2", "\\u10b3", "\\u10b4",
    "\\u10b5", "\\u10b6", "\\u10b7", "\\u10b8", "\\u10b9", "\\u10ba",
    "\\u10bb", "\\u10bc", "\\u10bd", "\\u10be", "\\u10bf", "\\u10c0",
    "\\u10c1", "\\u10c2", "\\u10c3", "\\u10c4", "\\u10c5", "\\u10c7",
    "\\u10cd", "\\u13a0", "\\u13a1", "\\u13a2", "\\u13a3", "\\u13a4",
    "\\u13a5", "\\u13a6", "\\u13a7", "\\u13a8", "\\u13a9", "\\u13aa",
    "\\u13ab", "\\u13ac", "\\u13ad", "\\u13ae", "\\u13af", "\\u13b0",
    "\\u13b1", "\\u13b2", "\\u13b3", "\\u13b4", "\\u13b5", "\\u13b6",
    "\\u13b7", "\\u13b8", "\\u13b9", "\\u13ba", "\\u13bb", "\\u13bc",
    "\\u13bd", "\\u13be", "\\u13bf", "\\u13c0", "\\u13c1", "\\u13c2",
    "\\u13c3", "\\u13c4", "\\u13c5", "\\u13c6", "\\u13c7", "\\u13c8",
    "\\u13c9", "\\u13ca", "\\u13cb", "\\u13cc", "\\u13cd", "\\u13ce",
    "\\u13cf", "\\u13d0", "\\u13d1", "\\u13d2", "\\u13d3", "\\u13d4",
    "\\u13d5", "\\u13d6", "\\u13d7", "\\u13d8", "\\u13d9", "\\u13da",
    "\\u13db", "\\u13dc", "\\u13dd", "\\u13de", "\\u13df", "\\u13e0",
    "\\u13e1", "\\u13e2", "\\u13e3", "\\u13e4", "\\u13e5", "\\u13e6",
    "\\u13e7", "\\u13e8", "\\u13e9", "\\u13ea", "\\u13eb", "\\u13ec",
    "\\u13ed", "\\u13ee", "\\u13ef", "\\u13f0", "\\u13f1", "\\u13f2",
    "\\u13f3", "\\u13f4", "\\u13f5", "\\u1c89", "\\u1c90", "\\u1c91",
    "\\u1c92", "\\u1c93", "\\u1c94", "\\u1c95", "\\u1c96", "\\u1c97",
    "\\u1c98", "\\u1c99", "\\u1c9a", "\\u1c9b", "\\u1c9c", "\\u1c9d",
    "\\u1c9e", "\\u1c9f", "\\u1ca0", "\\u1ca1", "\\u1ca2", "\\u1ca3",
    "\\u1ca4", "\\u1ca5", "\\u1ca6", "\\u1ca7", "\\u1ca8", "\\u1ca9",
    "\\u1caa", "\\u1cab", "\\u1cac", "\\u1cad", "\\u1cae", "\\u1caf",
    "\\u1cb0", "\\u1cb1", "\\u1cb2", "\\u1cb3", "\\u1cb4", "\\u1cb5",
    "\\u1cb6", "\\u1cb7", "\\u1cb8", "\\u1cb9", "\\u1cba", "\\u1cbd",
    "\\u1cbe", "\\u1cbf", "\\u1e00", "\\u1e02", "\\u1e04", "\\u1e06",
    "\\u1e08", "\\u1e0a", "\\u1e0c", "\\u1e0e", "\\u1e10", "\\u1e12",
    "\\u1e14", "\\u1e16", "\\u1e18", "\\u1e1a", "\\u1e1c", "\\u1e1e",
    "\\u1e20", "\\u1e22", "\\u1e24", "\\u1e26", "\\u1e28", "\\u1e2a",
    "\\u1e2c", "\\u1e2e", "\\u1e30", "\\u1e32", "\\u1e34", "\\u1e36",
    "\\u1e38", "\\u1e3a", "\\u1e3c", "\\u1e3e", "\\u1e40", "\\u1e42",
    "\\u1e44", "\\u1e46", "\\u1e48", "\\u1e4a", "\\u1e4c", "\\u1e4e",
    "\\u1e50", "\\u1e52", "\\u1e54", "\\u1e56", "\\u1e58", "\\u1e5a",
    "\\u1e5c", "\\u1e5e", "\\u1e60", "\\u1e62", "\\u1e64", "\\u1e66",
    "\\u1e68", "\\u1e6a", "\\u1e6c", "\\u1e6e", "\\u1e70", "\\u1e72",
    "\\u1e74", "\\u1e76", "\\u1e78", "\\u1e7a", "\\u1e7c", "\\u1e7e",
    "\\u1e80", "\\u1e82", "\\u1e84", "\\u1e86", "\\u1e88", "\\u1e8a",
    "\\u1e8c", "\\u1e8e", "\\u1e90", "\\u1e92", "\\u1e94", "\\u1e9e",
    "\\u1ea0", "\\u1ea2", "\\u1ea4", "\\u1ea6", "\\u1ea8", "\\u1eaa",
    "\\u1eac", "\\u1eae", "\\u1eb0", "\\u1eb2", "\\u1eb4", "\\u1eb6",
    "\\u1eb8", "\\u1eba", "\\u1ebc", "\\u1ebe", "\\u1ec0", "\\u1ec2",
    "\\u1ec4", "\\u1ec6", "\\u1ec8", "\\u1eca", "\\u1ecc", "\\u1ece",
    "\\u1ed0", "\\u1ed2", "\\u1ed4", "\\u1ed6", "\\u1ed8", "\\u1eda",
    "\\u1edc", "\\u1ede", "\\u1ee0", "\\u1ee2", "\\u1ee4", "\\u1ee6",
    "\\u1ee8", "\\u1eea", "\\u1eec", "\\u1eee", "\\u1ef0", "\\u1ef2",
    "\\u1ef4", "\\u1ef6", "\\u1ef8", "\\u1efa", "\\u1efc", "\\u1efe",
    "\\u1f08", "\\u1f09", "\\u1f0a", "\\u1f0b", "\\u1f0c", "\\u1f0d",
    "\\u1f0e", "\\u1f0f", "\\u1f18", "\\u1f19", "\\u1f1a", "\\u1f1b",
    "\\u1f1c", "\\u1f1d", "\\u1f28", "\\u1f29", "\\u1f2a", "\\u1f2b",
    "\\u1f2c", "\\u1f2d", "\\u1f2e", "\\u1f2f", "\\u1f38", "\\u1f39",
    "\\u1f3a", "\\u1f3b", "\\u1f3c", "\\u1f3d", "\\u1f3e", "\\u1f3f",
    "\\u1f48", "\\u1f49", "\\u1f4a", "\\u1f4b", "\\u1f4c", "\\u1f4d",
    "\\u1f59", "\\u1f5b", "\\u1f5d", "\\u1f5f", "\\u1f68", "\\u1f69",
    "\\u1f6a", "\\u1f6b", "\\u1f6c", "\\u1f6d", "\\u1f6e", "\\u1f6f",
    "\\u1f88", "\\u1f89", "\\u1f8a", "\\u1f8b", "\\u1f8c", "\\u1f8d",
    "\\u1f8e", "\\u1f8f", "\\u1f98", "\\u1f99", "\\u1f9a", "\\u1f9b",
    "\\u1f9c", "\\u1f9d", "\\u1f9e", "\\u1f9f", "\\u1fa8", "\\u1fa9",
    "\\u1faa", "\\u1fab", "\\u1fac", "\\u1fad", "\\u1fae", "\\u1faf",
    "\\u1fb8", "\\u1fb9", "\\u1fba", "\\u1fbb", "\\u1fbc", "\\u1fc8",
    "\\u1fc9", "\\u1fca", "\\u1fcb", "\\u1fcc", "\\u1fd8", "\\u1fd9",
    "\\u1fda", "\\u1fdb", "\\u1fe8", "\\u1fe9", "\\u1fea", "\\u1feb",
    "\\u1fec", "\\u1ff8", "\\u1ff9", "\\u1ffa", "\\u1ffb", "\\u1ffc",
    "\\u2126", "\\u212a", "\\u212b", "\\u2132", "\\u2160", "\\u2161",
    "\\u2162", "\\u2163", "\\u2164", "\\u2165", "\\u2166", "\\u2167",
    "\\u2168", "\\u2169", "\\u216a", "\\u216b", "\\u216c", "\\u216d",
    "\\u216e", "\\u216f", "\\u2183", "\\u24b6", "\\u24b7", "\\u24b8",
    "\\u24b9", "\\u24ba", "\\u24bb", "\\u24bc", "\\u24bd", "\\u24be",
    "\\u24bf", "\\u24c0", "\\u24c1", "\\u24c2", "\\u24c3", "\\u24c4",
    "\\u24c5", "\\u24c6", "\\u24c7", "\\u24c8", "\\u24c9", "\\u24ca",
    "\\u24cb", "\\u24cc", "\\u24cd", "\\u24ce", "\\u24cf", "\\u2c00",
    "\\u2c01", "\\u2c02", "\\u2c03", "\\u2c04", "\\u2c05", "\\u2c06",
    "\\u2c07", "\\u2c08", "\\u2c09", "\\u2c0a", "\\u2c0b", "\\u2c0c",
    "\\u2c0d", "\\u2c0e", "\\u2c0f", "\\u2c10", "\\u2c11", "\\u2c12",
    "\\u2c13", "\\u2c14", "\\u2c15", "\\u2c16", "\\u2c17", "\\u2c18",
    "\\u2c19", "\\u2c1a", "\\u2c1b", "\\u2c1c", "\\u2c1d", "\\u2c1e",
    "\\u2c1f", "\\u2c20", "\\u2c21", "\\u2c22", "\\u2c23", "\\u2c24",
    "\\u2c25", "\\u2c26", "\\u2c27", "\\u2c28", "\\u2c29", "\\u2c2a",
    "\\u2c2b", "\\u2c2c", "\\u2c2d", "\\u2c2e", "\\u2c2f", "\\u2c60",
    "\\u2c62", "\\u2c63", "\\u2c64", "\\u2c67", "\\u2c69", "\\u2c6b",
    "\\u2c6d", "\\u2c6e", "\\u2c6f", "\\u2c70", "\\u2c72", "\\u2c75",
    "\\u2c7e", "\\u2c7f", "\\u2c80", "\\u2c82", "\\u2c84", "\\u2c86",
    "\\u2c88", "\\u2c8a", "\\u2c8c", "\\u2c8e", "\\u2c90", "\\u2c92",
    "\\u2c94", "\\u2c96", "\\u2c98", "\\u2c9a", "\\u2c9c", "\\u2c9e",
    "\\u2ca0", "\\u2ca2", "\\u2ca4", "\\u2ca6", "\\u2ca8", "\\u2caa",
    "\\u2cac", "\\u2cae", "\\u2cb0", "\\u2cb2", "\\u2cb4", "\\u2cb6",
    "\\u2cb8", "\\u2cba", "\\u2cbc", "\\u2cbe", "\\u2cc0", "\\u2cc2",
    "\\u2cc4", "\\u2cc6", "\\u2cc8", "\\u2cca", "\\u2ccc", "\\u2cce",
    "\\u2cd0", "\\u2cd2", "\\u2cd4", "\\u2cd6", "\\u2cd8", "\\u2cda",
    "\\u2cdc", "\\u2cde", "\\u2ce0", "\\u2ce2", "\\u2ceb", "\\u2ced",
    "\\u2cf2", "\\ua640", "\\ua642", "\\ua644", "\\ua646", "\\ua648",
    "\\ua64a", "\\ua64c", "\\ua64e", "\\ua650", "\\ua652", "\\ua654",
    "\\ua656", "\\ua658", "\\ua65a", "\\ua65c", "\\ua65e", "\\ua660",
    "\\ua662", "\\ua664", "\\ua666", "\\ua668", "\\ua66a", "\\ua66c",
    "\\ua680", "\\ua682", "\\ua684", "\\ua686", "\\ua688", "\\ua68a",
    "\\ua68c", "\\ua68e", "\\ua690", "\\ua692", "\\ua694", "\\ua696",
    "\\ua698", "\\ua69a", "\\ua722", "\\ua724", "\\ua726", "\\ua728",
    "\\ua72a", "\\ua72c", "\\ua72e", "\\ua732", "\\ua734", "\\ua736",
    "\\ua738", "\\ua73a", "\\ua73c", "\\ua73e", "\\ua740", "\\ua742",
    "\\ua744", "\\ua746", "\\ua748", "\\ua74a", "\\ua74c", "\\ua74e",
    "\\ua750", "\\ua752", "\\ua754", "\\ua756", "\\ua758", "\\ua75a",
    "\\ua75c", "\\ua75e", "\\ua760", "\\ua762", "\\ua764", "\\ua766",
    "\\ua768", "\\ua76a", "\\ua76c", "\\ua76e", "\\ua779", "\\ua77b",
    "\\ua77d", "\\ua77e", "\\ua780", "\\ua782", "\\ua784", "\\ua786",
    "\\ua78b", "\\ua78d", "\\ua790", "\\ua792", "\\ua796", "\\ua798",
    "\\ua79a", "\\ua79c", "\\ua79e", "\\ua7a0", "\\ua7a2", "\\ua7a4",
    "\\ua7a6", "\\ua7a8", "\\ua7aa", "\\ua7ab", "\\ua7ac", "\\ua7ad",
    "\\ua7ae", "\\ua7b0", "\\ua7b1", "\\ua7b2", "\\ua7b3", "\\ua7b4",
    "\\ua7b6", "\\ua7b8", "\\ua7ba", "\\ua7bc", "\\ua7be", "\\ua7c0",
    "\\ua7c2", "\\ua7c4", "\\ua7c5", "\\ua7c6", "\\ua7c7", "\\ua7c9",
    "\\ua7cb", "\\ua7cc", "\\ua7ce", "\\ua7d0", "\\ua7d2", "\\ua7d4",
    "\\ua7d6", "\\ua7d8", "\\ua7da", "\\ua7dc", "\\ua7f5", "\\uff21",
    "\\uff22", "\\uff23", "\\uff24", "\\uff25", "\\uff26", "\\uff27",
    "\\uff28", "\\uff29", "\\uff2a", "\\uff2b", "\\uff2c", "\\uff2d",
    "\\uff2e", "\\uff2f", "\\uff30", "\\uff31", "\\uff32", "\\uff33",
    "\\uff34", "\\uff35", "\\uff36", "\\uff37", "\\uff38", "\\uff39",
    "\\uff3a"
  >>

LowerChars ==
  <<
    "a", "b", "c", "d", "e", "f", "g", "h", "i", "j", "k", "l", "m", "n", "o",
    "p", "q", "r", "s", "t", "u", "v", "w", "x", "y", "z", "à", "á", "â", "ã",
    "ä", "å", "æ", "ç", "è", "é", "ê", "ë", "ì", "í", "î", "ï", "ð", "ñ", "ò",
    "ó", "ô", "õ", "ö", "ø", "ù", "ú", "û", "ü", "ý", "þ", "\\u0101",
    "\\u0103", "\\u0105", "\\u0107", "\\u0109", "\\u010b", "\\u010d",
    "\\u010f", "\\u0111", "\\u0113", "\\u0115", "\\u0117", "\\u0119",
    "\\u011b", "\\u011d", "\\u011f", "\\u0121", "\\u0123", "\\u0125",
    "\\u0127", "\\u0129", "\\u012b", "\\u012d", "\\u012f", "\\u0133",
    "\\u0135", "\\u0137", "\\u013a", "\\u013c", "\\u013e", "\\u0140",
    "\\u0142", "\\u0144", "\\u0146", "\\u0148", "\\u014b", "\\u014d",
    "\\u014f", "\\u0151", "\\u0153", "\\u0155", "\\u0157", "\\u0159",
    "\\u015b", "\\u015d", "\\u015f", "\\u0161", "\\u0163", "\\u0165",
    "\\u0167", "\\u0169", "\\u016b", "\\u016d", "\\u016f", "\\u0171",
    "\\u0173", "\\u0175", "\\u0177", "ÿ", "\\u017a", "\\u017c", "\\u017e",
    "\\u0253", "\\u0183", "\\u0185", "\\u0254", "\\u0188", "\\u0256",
    "\\u0257", "\\u018c", "\\u01dd", "\\u0259", "\\u025b", "\\u0192",
    "\\u0260", "\\u0263", "\\u0269", "\\u0268", "\\u0199", "\\u026f",
    "\\u0272", "\\u0275", "\\u01a1", "\\u01a3", "\\u01a5", "\\u0280",
    "\\u01a8", "\\u0283", "\\u01ad", "\\u0288", "\\u01b0", "\\u028a",
    "\\u028b", "\\u01b4", "\\u01b6", "\\u0292", "\\u01b9", "\\u01bd",
    "\\u01c6", "\\u01c6", "\\u01c9", "\\u01c9", "\\u01cc", "\\u01cc",
    "\\u01ce", "\\u01d0", "\\u01d2", "\\u01d4", "\\u01d6", "\\u01d8",
    "\\u01da", "\\u01dc", "\\u01df", "\\u01e1", "\\u01e3", "\\u01e5",
    "\\u01e7", "\\u01e9", "\\u01eb", "\\u01ed", "\\u01ef", "\\u01f3",
    "\\u01f3", "\\u01f5", "\\u0195", "\\u01bf", "\\u01f9", "\\u01fb",
    "\\u01fd", "\\u01ff", "\\u0201", "\\u0203", "\\u0205", "\\u0207",
    "\\u0209", "\\u020b", "\\u020d", "\\u020f", "\\u0211", "\\u0213",
    "\\u0215", "\\u0217", "\\u0219", "\\u021b", "\\u021d", "\\u021f",
    "\\u019e", "\\u0223", "\\u0225", "\\u0227", "\\u0229", "\\u022b",
    "\\u022d", "\\u022f", "\\u0231", "\\u0233", "\\u2c65", "\\u023c",
    "\\u019a", "\\u2c66", "\\u0242", "\\u0180", "\\u0289", "\\u028c",
    "\\u0247", "\\u0249", "\\u024b", "\\u024d", "\\u024f", "\\u0371",
    "\\u0373", "\\u0377", "\\u03f3", "\\u03ac", "\\u03ad", "\\u03ae",
    "\\u03af", "\\u03cc", "\\u03cd", "\\u03ce", "\\u03b1", "\\u03b2",
    "\\u03b3", "\\u03b4", "\\u03b5", "\\u03b6", "\\u03b7", "\\u03b8",
    "\\u03b9", "\\u03ba", "\\u03bb", "\\u03bc", "\\u03bd", "\\u03be",
    "\\u03bf", "\\u03c0", "\\u03c1", "\\u03c3", "\\u03c4", "\\u03c5",
    "\\u03c6", "\\u03c7", "\\u03c8", "\\u03c9", "\\u03ca", "\\u03cb",
    "\\u03d7", "\\u03d9", "\\u03db", "\\u03dd", "\\u03df", "\\u03e1",
    "\\u03e3", "\\u03e5", "\\u03e7", "\\u03e9", "\\u03eb", "\\u03ed",
    "\\u03ef", "\\u03b8", "\\u03f8", "\\u03f2", "\\u03fb", "\\u037b",
    "\\u037c", "\\u037d", "\\u0450", "\\u0451", "\\u0452", "\\u0453",
    "\\u0454", "\\u0455", "\\u0456", "\\u0457", "\\u0458", "\\u0459",
    "\\u045a", "\\u045b", "\\u045c", "\\u045d", "\\u045e", "\\u045f",
    "\\u0430", "\\u0431", "\\u0432", "\\u0433", "\\u0434", "\\u0435",
    "\\u0436", "\\u0437", "\\u0438", "\\u0439", "\\u043a", "\\u043b",
    "\\u043c", "\\u043d", "\\u043e", "\\u043f", "\\u0440", "\\u0441",
    "\\u0442", "\\u0443", "\\u0444", "\\u0445", "\\u0446", "\\u0447",
    "\\u0448", "\\u0449", "\\u044a", "\\u044b", "\\u044c", "\\u044d",
    "\\u044e", "\\u044f", "\\u0461", "\\u0463", "\\u0465", "\\u0467",
    "\\u0469", "\\u046b", "\\u046d", "\\u046f", "\\u0471", "\\u0473",
    "\\u0475", "\\u0477", "\\u0479", "\\u047b", "\\u047d", "\\u047f",
    "\\u0481", "\\u048b", "\\u048d", "\\u048f", "\\u0491", "\\u0493",
    "\\u0495", "\\u0497", "\\u0499", "\\u049b", "\\u049d", "\\u049f",
    "\\u04a1", "\\u04a3", "\\u04a5", "\\u04a7", "\\u04a9", "\\u04ab",
    "\\u04ad", "\\u04af", "\\u04b1", "\\u04b3", "\\u04b5", "\\u04b7",
    "\\u04b9", "\\u04bb", "\\u04bd", "\\u04bf", "\\u04cf", "\\u04c2",
    "\\u04c4", "\\u04c6", "\\u04c8", "\\u04ca", "\\u04cc", "\\u04ce",
    "\\u04d1", "\\u04d3", "\\u04d5", "\\u04d7", "\\u04d9", "\\u04db",
    "\\u04dd", "\\u04df", "\\u04e1", "\\u04e3", "\\u04e5", "\\u04e7",
    "\\u04e9", "\\u04eb", "\\u04ed", "\\u04ef", "\\u04f1", "\\u04f3",
    "\\u04f5", "\\u04f7", "\\u04f9", "\\u04fb", "\\u04fd", "\\u04ff",
    "\\u0501", "\\u0503", "\\u0505", "\\u0507", "\\u0509", "\\u050b",
    "\\u050d", "\\u050f", "\\u0511", "\\u0513", "\\u0515", "\\u0517",
    "\\u0519", "\\u051b", "\\u051d", "\\u051f", "\\u0521", "\\u0523",
    "\\u0525", "\\u0527", "\\u0529", "\\u052b", "\\u052d", "\\u052f",
    "\\u0561", "\\u0562", "\\u0563", "\\u0564", "\\u0565", "\\u0566",
    "\\u0567", "\\u0568", "\\u0569", "\\u056a", "\\u056b", "\\u056c",
    "\\u056d", "\\u056e", "\\u056f", "\\u0570", "\\u0571", "\\u0572",
    "\\u0573", "\\u0574", "\\u0575", "\\u0576", "\\u0577", "\\u0578",
    "\\u0579", "\\u057a", "\\u057b", "\\u057c", "\\u057d", "\\u057e",
    "\\u057f", "\\u0580", "\\u0581", "\\u0582", "\\u0583", "\\u0584",
    "\\u0585", "\\u0586", "\\u2d00", "\\u2d01", "\\u2d02", "\\u2d03",
    "\\u2d04", "\\u2d05", "\\u2d06", "\\u2d07", "\\u2d08", "\\u2d09",
    "\\u2d0a", "\\u2d0b", "\\u2d0c", "\\u2d0d", "\\u2d0e", "\\u2d0f",
    "\\u2d10", "\\u2d11", "\\u2d12", "\\u2d13", "\\u2d14", "\\u2d15",
    "\\u2d16", "\\u2d17", "\\u2d18", "\\u2d19", "\\u2d1a", "\\u2d1b",
    "\\u2d1c", "\\u2d1d", "\\u2d1e", "\\u2d1f", "\\u2d20", "\\u2d21",
    "\\u2d22", "\\u2d23", "\\u2d24", "\\u2d25", "\\u2d27", "\\u2d2d",
    "\\uab70", "\\uab71", "\\uab72", "\\uab73", "\\uab74", "\\uab75",
    "\\uab76", "\\uab77", "\\uab78", "\\uab79", "\\uab7a", "\\uab7b",
    "\\uab7c", "\\uab7d", "\\uab7e", "\\uab7f", "\\uab80", "\\uab81",
    "\\uab82", "\\uab83", "\\uab84", "\\uab85", "\\uab86", "\\uab87",
    "\\uab88", "\\uab89", "\\uab8a", "\\uab8b", "\\uab8c", "\\uab8d",
    "\\uab8e", "\\uab8f", "\\uab90", "\\uab91", "\\uab92", "\\uab93",
    "\\uab94", "\\uab95", "\\uab96", "\\uab97", "\\uab98", "\\uab99",
    "\\uab9a", "\\uab9b", "\\uab9c", "\\uab9d", "\\uab9e", "\\uab9f",
    "\\uaba0", "\\uaba1", "\\uaba2", "\\uaba3", "\\uaba4", "\\uaba5",
    "\\uaba6", "\\uaba7", "\\uaba8", "\\uaba9", "\\uabaa", "\\uabab",
    "\\uabac", "\\uabad", "\\uabae", "\\uabaf", "\\uabb0", "\\uabb1",
    "\\uabb2", "\\uabb3", "\\uabb4", "\\uabb5", "\\uabb6", "\\uabb7",
    "\\uabb8", "\\uabb9", "\\uabba", "\\uabbb", "\\uabbc", "\\uabbd",
    "\\uabbe", "\\uabbf", "\\u13f8", "\\u13f9", "\\u13fa", "\\u13fb",
    "\\u13fc", "\\u13fd", "\\u1c8a", "\\u10d0", "\\u10d1", "\\u10d2",
    "\\u10d3", "\\u10d4", "\\u10d5", "\\u10d6", "\\u10d7", "\\u10d8",
    "\\u10d9", "\\u10da", "\\u10db", "\\u10dc", "\\u10dd", "\\u10de",
    "\\u10df", "\\u10e0", "\\u10e1", "\\u10e2", "\\u10e3", "\\u10e4",
    "\\u10e5", "\\u10e6", "\\u10e7", "\\u10e8", "\\u10e9", "\\u10ea",
    "\\u10eb", "\\u10ec", "\\u10ed", "\\u10ee", "\\u10ef", "\\u10f0",
    "\\u10f1", "\\u10f2", "\\u10f3", "\\u10f4", "\\u10f5", "\\u10f6",
    "\\u10f7", "\\u10f8", "\\u10f9", "\\u10fa", "\\u10fd", "\\u10fe",
    "\\u10ff", "\\u1e01", "\\u1e03", "\\u1e05", "\\u1e07", "\\u1e09",
    "\\u1e0b", "\\u1e0d", "\\u1e0f", "\\u1e11", "\\u1e13", "\\u1e15",
    "\\u1e17", "\\u1e19", "\\u1e1b", "\\u1e1d", "\\u1e1f", "\\u1e21",
    "\\u1e23", "\\u1e25", "\\u1e27", "\\u1e29", "\\u1e2b", "\\u1e2d",
    "\\u1e2f", "\\u1e31", "\\u1e33", "\\u1e35", "\\u1e37", "\\u1e39",
    "\\u1e3b", "\\u1e3d", "\\u1e3f", "\\u1e41", "\\u1e43", "\\u1e45",
    "\\u1e47", "\\u1e49", "\\u1e4b", "\\u1e4d", "\\u1e4f", "\\u1e51",
    "\\u1e53", "\\u1e55", "\\u1e57", "\\u1e59", "\\u1e5b", "\\u1e5d",
    "\\u1e5f", "\\u1e61", "\\u1e63", "\\u1e65", "\\u1e67", "\\u1e69",
    "\\u1e6b", "\\u1e6d", "\\u1e6f", "\\u1e71", "\\u1e73", "\\u1e75",
    "\\u1e77", "\\u1e79", "\\u1e7b", "\\u1e7d", "\\u1e7f", "\\u1e81",
    "\\u1e83", "\\u1e85", "\\u1e87", "\\u1e89", "\\u1e8b", "\\u1e8d",
    "\\u1e8f", "\\u1e91", "\\u1e93", "\\u1e95", "ß", "\\u1ea1", "\\u1ea3",
    "\\u1ea5", "\\u1ea7", "\\u1ea9", "\\u1eab", "\\u1ead", "\\u1eaf",
    "\\u1eb1", "\\u1eb3", "\\u1eb5", "\\u1eb7", "\\u1eb9", "\\u1ebb",
    "\\u1ebd", "\\u1ebf", "\\u1ec1", "\\u1ec3", "\\u1ec5", "\\u1ec7",
    "\\u1ec9", "\\u1ecb", "\\u1ecd", "\\u1ecf", "\\u1ed1", "\\u1ed3",
    "\\u1ed5", "\\u1ed7", "\\u1ed9", "\\u1edb", "\\u1edd", "\\u1edf",
    "\\u1ee1", "\\u1ee3", "\\u1ee5", "\\u1ee7", "\\u1ee9", "\\u1eeb",
    "\\u1eed", "\\u1eef", "\\u1ef1", "\\u1ef3", "\\u1ef5", "\\u1ef7",
    "\\u1ef9", "\\u1efb", "\\u1efd", "\\u1eff", "\\u1f00", "\\u1f01",
    "\\u1f02", "\\u1f03", "\\u1f04", "\\u1f05", "\\u1f06", "\\u1f07",
    "\\u1f10", "\\u1f11", "\\u1f12", "\\u1f13", "\\u1f14", "\\u1f15",
    "\\u1f20", "\\u1f21", "\\u1f22", "\\u1f23", "\\u1f24", "\\u1f25",
    "\\u1f26", "\\u1f27", "\\u1f30", "\\u1f31", "\\u1f32", "\\u1f33",
    "\\u1f34", "\\u1f35", "\\u1f36", "\\u1f37", "\\u1f40", "\\u1f41",
    "\\u1f42", "\\u1f43", "\\u1f44", "\\u1f45", "\\u1f51", "\\u1f53",
    "\\u1f55", "\\u1f57", "\\u1f60", "\\u1f61", "\\u1f62", "\\u1f63",
    "\\u1f64", "\\u1f65", "\\u1f66", "\\u1f67", "\\u1f80", "\\u1f81",
    "\\u1f82", "\\u1f83", "\\u1f84", "\\u1f85", "\\u1f86", "\\u1f87",
    "\\u1f90", "\\u1f91", "\\u1f92", "\\u1f93", "\\u1f94", "\\u1f95",
    "\\u1f96", "\\u1f97", "\\u1fa0", "\\u1fa1", "\\u1fa2", "\\u1fa3",
    "\\u1fa4", "\\u1fa5", "\\u1fa6", "\\u1fa7", "\\u1fb0", "\\u1fb1",
    "\\u1f70", "\\u1f71", "\\u1fb3", "\\u1f72", "\\u1f73", "\\u1f74",
    "\\u1f75", "\\u1fc3", "\\u1fd0", "\\u1fd1", "\\u1f76", "\\u1f77",
    "\\u1fe0", "\\u1fe1", "\\u1f7a", "\\u1f7b", "\\u1fe5", "\\u1f78",
    "\\u1f79", "\\u1f7c", "\\u1f7d", "\\u1ff3", "\\u03c9", "k", "å",
    "\\u214e", "\\u2170", "\\u2171", "\\u2172", "\\u2173", "\\u2174",
    "\\u2175", "\\u2176", "\\u2177", "\\u2178", "\\u2179", "\\u217a",
    "\\u217b", "\\u217c", "\\u217d", "\\u217e", "\\u217f", "\\u2184",
    "\\u24d0", "\\u24d1", "\\u24d2", "\\u24d3", "\\u24d4", "\\u24d5",
    "\\u24d6", "\\u24d7", "\\u24d8", "\\u24d9", "\\u24da", "\\u24db",
    "\\u24dc", "\\u24dd", "\\u24de", "\\u24df", "\\u24e0", "\\u24e1",
    "\\u24e2", "\\u24e3", "\\u24e4", "\\u24e5", "\\u24e6", "\\u24e7",
    "\\u24e8", "\\u24e9", "\\u2c30", "\\u2c31", "\\u2c32", "\\u2c33",
    "\\u2c34", "\\u2c35", "\\u2c36", "\\u2c37", "\\u2c38", "\\u2c39",
    "\\u2c3a", "\\u2c3b", "\\u2c3c", "\\u2c3d", "\\u2c3e", "\\u2c3f",
    "\\u2c40", "\\u2c41", "\\u2c42", "\\u2c43", "\\u2c44", "\\u2c45",
    "\\u2c46", "\\u2c47", "\\u2c48", "\\u2c49", "\\u2c4a", "\\u2c4b",
    "\\u2c4c", "\\u2c4d", "\\u2c4e", "\\u2c4f", "\\u2c50", "\\u2c51",
    "\\u2c52", "\\u2c53", "\\u2c54", "\\u2c55", "\\u2c56", "\\u2c57",
    "\\u2c58", "\\u2c59", "\\u2c5a", "\\u2c5b", "\\u2c5c", "\\u2c5d",
    "\\u2c5e", "\\u2c5f", "\\u2c61", "\\u026b", "\\u1d7d", "\\u027d",
    "\\u2c68", "\\u2c6a", "\\u2c6c", "\\u0251", "\\u0271", "\\u0250",
    "\\u0252", "\\u2c73", "\\u2c76", "\\u023f", "\\u0240", "\\u2c81",
    "\\u2c83", "\\u2c85", "\\u2c87", "\\u2c89", "\\u2c8b", "\\u2c8d",
    "\\u2c8f", "\\u2c91", "\\u2c93", "\\u2c95", "\\u2c97", "\\u2c99",
    "\\u2c9b", "\\u2c9d", "\\u2c9f", "\\u2ca1", "\\u2ca3", "\\u2ca5",
    "\\u2ca7", "\\u2ca9", "\\u2cab", "\\u2cad", "\\u2caf", "\\u2cb1",
    "\\u2cb3", "\\u2cb5", "\\u2cb7", "\\u2cb9", "\\u2cbb", "\\u2cbd",
    "\\u2cbf", "\\u2cc1", "\\u2cc3", "\\u2cc5", "\\u2cc7", "\\u2cc9",
    "\\u2ccb", "\\u2ccd", "\\u2ccf", "\\u2cd1", "\\u2cd3", "\\u2cd5",
    "\\u2cd7", "\\u2cd9", "\\u2cdb", "\\u2cdd", "\\u2cdf", "\\u2ce1",
    "\\u2ce3", "\\u2cec", "\\u2cee", "\\u2cf3", "\\ua641", "\\ua643",
    "\\ua645", "\\ua647", "\\ua649", "\\ua64b", "\\ua64d", "\\ua64f",
    "\\ua651", "\\ua653", "\\ua655", "\\ua657", "\\ua659", "\\ua65b",
    "\\ua65d", "\\ua65f", "\\ua661", "\\ua663", "\\ua665", "\\ua667",
    "\\ua669", "\\ua66b", "\\ua66d", "\\ua681", "\\ua683", "\\ua685",
    "\\ua687", "\\ua689", "\\ua68b", "\\ua68d", "\\ua68f", "\\ua691",
    "\\ua693", "\\ua695", "\\ua697", "\\ua699", "\\ua69b", "\\ua723",
    "\\ua725", "\\ua727", "\\ua729", "\\ua72b", "\\ua72d", "\\ua72f",
    "\\ua733", "\\ua735", "\\ua737", "\\ua739", "\\ua73b", "\\ua73d",
    "\\ua73f", "\\ua741", "\\ua743", "\\ua745", "\\ua747", "\\ua749",
    "\\ua74b", "\\ua74d", "\\ua74f", "\\ua751", "\\ua753", "\\ua755",
    "\\ua757", "\\ua759", "\\ua75b", "\\ua75d", "\\ua75f", "\\ua761",
    "\\ua763", "\\ua765", "\\ua767", "\\ua769", "\\ua76b", "\\ua76d",
    "\\ua76f", "\\ua77a", "\\ua77c", "\\u1d79", "\\ua77f", "\\ua781",
    "\\ua783", "\\ua785", "\\ua787", "\\ua78c", "\\u0265", "\\ua791",
    "\\ua793", "\\ua797", "\\ua799", "\\ua79b", "\\ua79d", "\\ua79f",
    "\\ua7a1", "\\ua7a3", "\\ua7a5", "\\ua7a7", "\\ua7a9", "\\u0266",
    "\\u025c", "\\u0261", "\\u026c", "\\u026a", "\\u029e", "\\u0287",
    "\\u029d", "\\uab53", "\\ua7b5", "\\ua7b7", "\\ua7b9", "\\ua7bb",
    "\\ua7bd", "\\ua7bf", "\\ua7c1", "\\ua7c3", "\\ua794", "\\u0282",
    "\\u1d8e", "\\ua7c8", "\\ua7ca", "\\u0264", "\\ua7cd", "\\ua7cf",
    "\\ua7d1", "\\ua7d3", "\\ua7d5", "\\ua7d7", "\\ua7d9", "\\ua7db",
    "\\u019b", "\\ua7f6", "\\uff41", "\\uff42", "\\uff43", "\\uff44",
    "\\uff45", "\\uff46", "\\uff47", "\\uff48", "\\uff49", "\\uff4a",
    "\\uff4b", "\\uff4c", "\\uff4d", "\\uff4e", "\\uff4f", "\\uff50",
    "\\uff51", "\\uff52", "\\uff53", "\\uff54", "\\uff55", "\\uff56",
    "\\uff57", "\\uff58", "\\uff59", "\\uff5a"
  >>

\* the same for the characters that take two code units (a surrogate pair)
UpperPairs ==
  <<
    <<"\\ud801", "\\udc00">>, <<"\\ud801", "\\udc01">>,
    <<"\\ud801", "\\udc02">>, <<"\\ud801", "\\udc03">>,
    <<"\\ud801", "\\udc04">>, <<"\\ud801", "\\udc05">>,
    <<"\\ud801", "\\udc06">>, <<"\\ud801", "\\udc07">>,
    <<"\\ud801", "\\udc08">>, <<"\\ud801", "\\udc09">>,
    <<"\\ud801", "\\udc0a">>, <<"\\ud801", "\\udc0b">>,
    <<"\\ud801", "\\udc0c">>, <<"\\ud801", "\\udc0d">>,
    <<"\\ud801", "\\udc0e">>, <<"\\ud801", "\\udc0f">>,
    <<"\\ud801", "\\udc10">>, <<"\\ud801", "\\udc11">>,
    <<"\\ud801", "\\udc12">>, <<"\\ud801", "\\udc13">>,
    <<"\\ud801", "\\udc14">>, <<"\\ud801", "\\udc15">>,
    <<"\\ud801", "\\udc16">>, <<"\\ud801", "\\udc17">>,
    <<"\\ud801", "\\udc18">>, <<"\\ud801", "\\udc19">>,
    <<"\\ud801", "\\udc1a">>, <<"\\ud801", "\\udc1b">>,
    <<"\\ud801", "\\udc1c">>, <<"\\ud801", "\\udc1d">>,
    <<"\\ud801", "\\udc1e">>, <<"\\ud801", "\\udc1f">>,
    <<"\\ud801", "\\udc20">>, <<"\\ud801", "\\udc21">>,
    <<"\\ud801", "\\udc22">>, <<"\\ud801", "\\udc23">>,
    <<"\\ud801", "\\udc24">>, <<"\\ud801", "\\udc25">>,
    <<"\\ud801", "\\udc26">>, <<"\\ud801", "\\udc27">>,
    <<"\\ud801", "\\udcb0">>, <<"\\ud801", "\\udcb1">>,
    <<"\\ud801", "\\udcb2">>, <<"\\ud801", "\\udcb3">>,
    <<"\\ud801", "\\udcb4">>, <<"\\ud801", "\\udcb5">>,
    <<"\\ud801", "\\udcb6">>, <<"\\ud801", "\\udcb7">>,
    <<"\\ud801", "\\udcb8">>, <<"\\ud801", "\\udcb9">>,
    <<"\\ud801", "\\udcba">>, <<"\\ud801", "\\udcbb">>,
    <<"\\ud801", "\\udcbc">>, <<"\\ud801", "\\udcbd">>,
    <<"\\ud801", "\\udcbe">>, <<"\\ud801", "\\udcbf">>,
    <<"\\ud801", "\\udcc0">>, <<"\\ud801", "\\udcc1">>,
    <<"\\ud801", "\\udcc2">>, <<"\\ud801", "\\udcc3">>,
    <<"\\ud801", "\\udcc4">>, <<"\\ud801", "\\udcc5">>,
    <<"\\ud801", "\\udcc6">>, <<"\\ud801", "\\udcc7">>,
    <<"\\ud801", "\\udcc8">>, <<"\\ud801", "\\udcc9">>,
    <<"\\ud801", "\\udcca">>, <<"\\ud801", "\\udccb">>,
    <<"\\ud801", "\\udccc">>, <<"\\ud801", "\\udccd">>,
    <<"\\ud801", "\\udcce">>, <<"\\ud801", "\\udccf">>,
    <<"\\ud801", "\\udcd0">>, <<"\\ud801", "\\udcd1">>,
    <<"\\ud801", "\\udcd2">>, <<"\\ud801", "\\udcd3">>,
    <<"\\ud801", "\\udd70">>, <<"\\ud801", "\\udd71">>,
    <<"\\ud801", "\\udd72">>, <<"\\ud801", "\\udd73">>,
    <<"\\ud801", "\\udd74">>, <<"\\ud801", "\\udd75">>,
    <<"\\ud801", "\\udd76">>, <<"\\ud801", "\\udd77">>,
    <<"\\ud801", "\\udd78">>, <<"\\ud801", "\\udd79">>,
    <<"\\ud801", "\\udd7a">>, <<"\\ud801", "\\udd7c">>,
    <<"\\ud801", "\\udd7d">>, <<"\\ud801", "\\udd7e">>,
    <<"\\ud801", "\\udd7f">>, <<"\\ud801", "\\udd80">>,
    <<"\\ud801", "\\udd81">>, <<"\\ud801", "\\udd82">>,
    <<"\\ud801", "\\udd83">>, <<"\\ud801", "\\udd84">>,
    <<"\\ud801", "\\udd85">>, <<"\\ud801", "\\udd86">>,
    <<"\\ud801", "\\udd87">>, <<"\\ud801", "\\udd88">>,
    <<"\\ud801", "\\udd89">>, <<"\\ud801", "\\udd8a">>,
    <<"\\ud801", "\\udd8c">>, <<"\\ud801", "\\udd8d">>,
    <<"\\ud801", "\\udd8e">>, <<"\\ud801", "\\udd8f">>,
    <<"\\ud801", "\\udd90">>, <<"\\ud801", "\\udd91">>,
    <<"\\ud801", "\\udd92">>, <<"\\ud801", "\\udd94">>,
    <<"\\ud801", "\\udd95">>, <<"\\ud803", "\\udc80">>,
    <<"\\ud803", "\\udc81">>, <<"\\ud803", "\\udc82">>,
    <<"\\ud803", "\\udc83">>, <<"\\ud803", "\\udc84">>,
    <<"\\ud803", "\\udc85">>, <<"\\ud803", "\\udc86">>,
    <<"\\ud803", "\\udc87">>, <<"\\ud803", "\\udc88">>,
    <<"\\ud803", "\\udc89">>, <<"\\ud803", "\\udc8a">>,
    <<"\\ud803", "\\udc8b">>, <<"\\ud803", "\\udc8c">>,
    <<"\\ud803", "\\udc8d">>, <<"\\ud803", "\\udc8e">>,
    <<"\\ud803", "\\udc8f">>, <<"\\ud803", "\\udc90">>,
    <<"\\ud803", "\\udc91">>, <<"\\ud803", "\\udc92">>,
    <<"\\ud803", "\\udc93">>, <<"\\ud803", "\\udc94">>,
    <<"\\ud803", "\\udc95">>, <<"\\ud803", "\\udc96">>,
    <<"\\ud803", "\\udc97">>, <<"\\ud803", "\\udc98">>,
    <<"\\ud803", "\\udc99">>, <<"\\ud803", "\\udc9a">>,
    <<"\\ud803", "\\udc9b">>, <<"\\ud803", "\\udc9c">>,
    <<"\\ud803", "\\udc9d">>, <<"\\ud803", "\\udc9e">>,
    <<"\\ud803", "\\udc9f">>, <<"\\ud803", "\\udca0">>,
    <<"\\ud803", "\\udca1">>, <<"\\ud803", "\\udca2">>,
    <<"\\ud803", "\\udca3">>, <<"\\ud803", "\\udca4">>,
    <<"\\ud803", "\\udca5">>, <<"\\ud803", "\\udca6">>,
    <<"\\ud803", "\\udca7">>, <<"\\ud803", "\\udca8">>,
    <<"\\ud803", "\\udca9">>, <<"\\ud803", "\\udcaa">>,
    <<"\\ud803", "\\udcab">>, <<"\\ud803", "\\udcac">>,
    <<"\\ud803", "\\udcad">>, <<"\\ud803", "\\udcae">>,
    <<"\\ud803", "\\udcaf">>, <<"\\ud803", "\\udcb0">>,
    <<"\\ud803", "\\udcb1">>, <<"\\ud803", "\\udcb2">>,
    <<"\\ud803", "\\udd50">>, <<"\\ud803", "\\udd51">>,
    <<"\\ud803", "\\udd52">>, <<"\\ud803", "\\udd53">>,
    <<"\\ud803", "\\udd54">>, <<"\\ud803", "\\udd55">>,
    <<"\\ud803", "\\udd56">>, <<"\\ud803", "\\udd57">>,
    <<"\\ud803", "\\udd58">>, <<"\\ud803", "\\udd59">>,
    <<"\\ud803", "\\udd5a">>, <<"\\ud803", "\\udd5b">>,
    <<"\\ud803", "\\udd5c">>, <<"\\ud803", "\\udd5d">>,
    <<"\\ud803", "\\udd5e">>, <<"\\ud803", "\\udd5f">>,
    <<"\\ud803", "\\udd60">>, <<"\\ud803", "\\udd61">>,
    <<"\\ud803", "\\udd62">>, <<"\\ud803", "\\udd63">>,
    <<"\\ud803", "\\udd64">>, <<"\\ud803", "\\udd65">>,
    <<"\\ud806", "\\udca0">>, <<"\\ud806", "\\udca1">>,
    <<"\\ud806", "\\udca2">>, <<"\\ud806", "\\udca3">>,
    <<"\\ud806", "\\udca4">>, <<"\\ud806", "\\udca5">>,
    <<"\\ud806", "\\udca6">>, <<"\\ud806", "\\udca7">>,
    <<"\\ud806", "\\udca8">>, <<"\\ud806", "\\udca9">>,
    <<"\\ud806", "\\udcaa">>, <<"\\ud806", "\\udcab">>,
    <<"\\ud806", "\\udcac">>, <<"\\ud806", "\\udcad">>,
    <<"\\ud806", "\\udcae">>, <<"\\ud806", "\\udcaf">>,
    <<"\\ud806", "\\udcb0">>, <<"\\ud806", "\\udcb1">>,
    <<"\\ud806", "\\udcb2">>, <<"\\ud806", "\\udcb3">>,
    <<"\\ud806", "\\udcb4">>, <<"\\ud806", "\\udcb5">>,
    <<"\\ud806", "\\udcb6">>, <<"\\ud806", "\\udcb7">>,
    <<"\\ud806", "\\udcb8">>, <<"\\ud806", "\\udcb9">>,
    <<"\\ud806", "\\udcba">>, <<"\\ud806", "\\udcbb">>,
    <<"\\ud806", "\\udcbc">>, <<"\\ud806", "\\udcbd">>,
    <<"\\ud806", "\\udcbe">>, <<"\\ud806", "\\udcbf">>,
    <<"\\ud81b", "\\ude40">>, <<"\\ud81b", "\\ude41">>,
    <<"\\ud81b", "\\ude42">>, <<"\\ud81b", "\\ude43">>,
    <<"\\ud81b", "\\ude44">>, <<"\\ud81b", "\\ude45">>,
    <<"\\ud81b", "\\ude46">>, <<"\\ud81b", "\\ude47">>,
    <<"\\ud81b", "\\ude48">>, <<"\\ud81b", "\\ude49">>,
    <<"\\ud81b", "\\ude4a">>, <<"\\ud81b", "\\ude4b">>,
    <<"\\ud81b", "\\ude4c">>, <<"\\ud81b", "\\ude4d">>,
    <<"\\ud81b", "\\ude4e">>, <<"\\ud81b", "\\ude4f">>,
    <<"\\ud81b", "\\ude50">>, <<"\\ud81b", "\\ude51">>,
    <<"\\ud81b", "\\ude52">>, <<"\\ud81b", "\\ude53">>,
    <<"\\ud81b", "\\ude54">>, <<"\\ud81b", "\\ude55">>,
    <<"\\ud81b", "\\ude56">>, <<"\\ud81b", "\\ude57">>,
    <<"\\ud81b", "\\ude58">>, <<"\\ud81b", "\\ude59">>,
    <<"\\ud81b", "\\ude5a">>, <<"\\ud81b", "\\ude5b">>,
    <<"\\ud81b", "\\ude5c">>, <<"\\ud81b", "\\ude5d">>,
    <<"\\ud81b", "\\ude5e">>, <<"\\ud81b", "\\ude5f">>,
    <<"\\ud81b", "\\udea0">>, <<"\\ud81b", "\\udea1">>,
    <<"\\ud81b", "\\udea2">>, <<"\\ud81b", "\\udea3">>,
    <<"\\ud81b", "\\udea4">>, <<"\\ud81b", "\\udea5">>,
    <<"\\ud81b", "\\udea6">>, <<"\\ud81b", "\\udea7">>,
    <<"\\ud81b", "\\udea8">>, <<"\\ud81b", "\\udea9">>,
    <<"\\ud81b", "\\udeaa">>, <<"\\ud81b", "\\udeab">>,
    <<"\\ud81b", "\\udeac">>, <<"\\ud81b", "\\udead">>,
    <<"\\ud81b", "\\udeae">>, <<"\\ud81b", "\\udeaf">>,
    <<"\\ud81b", "\\udeb0">>, <<"\\ud81b", "\\udeb1">>,
    <<"\\ud81b", "\\udeb2">>, <<"\\ud81b", "\\udeb3">>,
    <<"\\ud81b", "\\udeb4">>, <<"\\ud81b", "\\udeb5">>,
    <<"\\ud81b", "\\udeb6">>, <<"\\ud81b", "\\udeb7">>,
    <<"\\ud81b", "\\udeb8">>, <<"\\ud83a", "\\udd00">>,
    <<"\\ud83a", "\\udd01">>, <<"\\ud83a", "\\udd02">>,
    <<"\\ud83a", "\\udd03">>, <<"\\ud83a", "\\udd04">>,
    <<"\\ud83a", "\\udd05">>, <<"\\ud83a", "\\udd06">>,
    <<"\\ud83a", "\\udd07">>, <<"\\ud83a", "\\udd08">>,
    <<"\\ud83a", "\\udd09">>, <<"\\ud83a", "\\udd0a">>,
    <<"\\ud83a", "\\udd0b">>, <<"\\ud83a", "\\udd0c">>,
    <<"\\ud83a", "\\udd0d">>, <<"\\ud83a", "\\udd0e">>,
    <<"\\ud83a", "\\udd0f">>, <<"\\ud83a", "\\udd10">>,
    <<"\\ud83a", "\\udd11">>, <<"\\ud83a", "\\udd12">>,
    <<"\\ud83a", "\\udd13">>, <<"\\ud83a", "\\udd14">>,
    <<"\\ud83a", "\\udd15">>, <<"\\ud83a", "\\udd16">>,
    <<"\\ud83a", "\\udd17">>, <<"\\ud83a", "\\udd18">>,
    <<"\\ud83a", "\\udd19">>, <<"\\ud83a", "\\udd1a">>,
    <<"\\ud83a", "\\udd1b">>, <<"\\ud83a", "\\udd1c">>,
    <<"\\ud83a", "\\udd1d">>, <<"\\ud83a", "\\udd1e">>,
    <<"\\ud83a", "\\udd1f">>, <<"\\ud83a", "\\udd20">>,
    <<"\\ud83a", "\\udd21">>
  >>

LowerPairs ==
  <<
    <<"\\ud801", "\\udc28">>, <<"\\ud801", "\\udc29">>,
    <<"\\ud801", "\\udc2a">>, <<"\\ud801", "\\udc2b">>,
    <<"\\ud801", "\\udc2c">>, <<"\\ud801", "\\udc2d">>,
    <<"\\ud801", "\\udc2e">>, <<"\\ud801", "\\udc2f">>,
    <<"\\ud801", "\\udc30">>, <<"\\ud801", "\\udc31">>,
    <<"\\ud801", "\\udc32">>, <<"\\ud801", "\\udc33">>,
    <<"\\ud801", "\\udc34">>, <<"\\ud801", "\\udc35">>,
    <<"\\ud801", "\\udc36">>, <<"\\ud801", "\\udc37">>,
    <<"\\ud801", "\\udc38">>, <<"\\ud801", "\\udc39">>,
    <<"\\ud801", "\\udc3a">>, <<"\\ud801", "\\udc3b">>,
    <<"\\ud801", "\\udc3c">>, <<"\\ud801", "\\udc3d">>,
    <<"\\ud801", "\\udc3e">>, <<"\\ud801", "\\udc3f">>,
    <<"\\ud801", "\\udc40">>, <<"\\ud801", "\\udc41">>,
    <<"\\ud801", "\\udc42">>, <<"\\ud801", "\\udc43">>,
    <<"\\ud801", "\\udc44">>, <<"\\ud801", "\\udc45">>,
    <<"\\ud801", "\\udc46">>, <<"\\ud801", "\\udc47">>,
    <<"\\ud801", "\\udc48">>, <<"\\ud801", "\\udc49">>,
    <<"\\ud801", "\\udc4a">>, <<"\\ud801", "\\udc4b">>,
    <<"\\ud801", "\\udc4c">>, <<"\\ud801", "\\udc4d">>,
    <<"\\ud801", "\\udc4e">>, <<"\\ud801", "\\udc4f">>,
    <<"\\ud801", "\\udcd8">>, <<"\\ud801", "\\udcd9">>,
    <<"\\ud801", "\\udcda">>, <<"\\ud801", "\\udcdb">>,
    <<"\\ud801", "\\udcdc">>, <<"\\ud801", "\\udcdd">>,
    <<"\\ud801", "\\udcde">>, <<"\\ud801", "\\udcdf">>,
    <<"\\ud801", "\\udce0">>, <<"\\ud801", "\\udce1">>,
    <<"\\ud801", "\\udce2">>, <<"\\ud801", "\\udce3">>,
    <<"\\ud801", "\\udce4">>, <<"\\ud801", "\\udce5">>,
    <<"\\ud801", "\\udce6">>, <<"\\ud801", "\\udce7">>,
    <<"\\ud801", "\\udce8">>, <<"\\ud801", "\\udce9">>,
    <<"\\ud801", "\\udcea">>, <<"\\ud801", "\\udceb">>,
    <<"\\ud801", "\\udcec">>, <<"\\ud801", "\\udced">>,
    <<"\\ud801", "\\udcee">>, <<"\\ud801", "\\udcef">>,
    <<"\\ud801", "\\udcf0">>, <<"\\ud801", "\\udcf1">>,
    <<"\\ud801", "\\udcf2">>, <<"\\ud801", "\\udcf3">>,
    <<"\\ud801", "\\udcf4">>, <<"\\ud801", "\\udcf5">>,
    <<"\\ud801", "\\udcf6">>, <<"\\ud801", "\\udcf7">>,
    <<"\\ud801", "\\udcf8">>, <<"\\ud801", "\\udcf9">>,
    <<"\\ud801", "\\udcfa">>, <<"\\ud801", "\\udcfb">>,
    <<"\\ud801", "\\udd97">>, <<"\\ud801", "\\udd98">>,
    <<"\\ud801", "\\udd99">>, <<"\\ud801", "\\udd9a">>,
    <<"\\ud801", "\\udd9b">>, <<"\\ud801", "\\udd9c">>,
    <<"\\ud801", "\\udd9d">>, <<"\\ud801", "\\udd9e">>,
    <<"\\ud801", "\\udd9f">>, <<"\\ud801", "\\udda0">>,
    <<"\\ud801", "\\udda1">>, <<"\\ud801", "\\udda3">>,
    <<"\\ud801", "\\udda4">>, <<"\\ud801", "\\udda5">>,
    <<"\\ud801", "\\udda6">>, <<"\\ud801", "\\udda7">>,
    <<"\\ud801", "\\udda8">>, <<"\\ud801", "\\udda9">>,
    <<"\\ud801", "\\uddaa">>, <<"\\ud801", "\\uddab">>,
    <<"\\ud801", "\\uddac">>, <<"\\ud801", "\\uddad">>,
    <<"\\ud801", "\\uddae">>, <<"\\ud801", "\\uddaf">>,
    <<"\\ud801", "\\uddb0">>, <<"\\ud801", "\\uddb1">>,
    <<"\\ud801", "\\uddb3">>, <<"\\ud801", "\\uddb4">>,
    <<"\\ud801", "\\uddb5">>, <<"\\ud801", "\\uddb6">>,
    <<"\\ud801", "\\uddb7">>, <<"\\ud801", "\\uddb8">>,
    <<"\\ud801", "\\uddb9">>, <<"\\ud801", "\\uddbb">>,
    <<"\\ud801", "\\uddbc">>, <<"\\ud803", "\\udcc0">>,
    <<"\\ud803", "\\udcc1">>, <<"\\ud803", "\\udcc2">>,
    <<"\\ud803", "\\udcc3">>, <<"\\ud803", "\\udcc4">>,
    <<"\\ud803", "\\udcc5">>, <<"\\ud803", "\\udcc6">>,
    <<"\\ud803", "\\udcc7">>, <<"\\ud803", "\\udcc8">>,
    <<"\\ud803", "\\udcc9">>, <<"\\ud803", "\\udcca">>,
    <<"\\ud803", "\\udccb">>, <<"\\ud803", "\\udccc">>,
    <<"\\ud803", "\\udccd">>, <<"\\ud803", "\\udcce">>,
    <<"\\ud803", "\\udccf">>, <<"\\ud803", "\\udcd0">>,
    <<"\\ud803", "\\udcd1">>, <<"\\ud803", "\\udcd2">>,
    <<"\\ud803", "\\udcd3">>, <<"\\ud803", "\\udcd4">>,
    <<"\\ud803", "\\udcd5">>, <<"\\ud803", "\\udcd6">>,
    <<"\\ud803", "\\udcd7">>, <<"\\ud803", "\\udcd8">>,
    <<"\\ud803", "\\udcd9">>, <<"\\ud803", "\\udcda">>,
    <<"\\ud803", "\\udcdb">>, <<"\\ud803", "\\udcdc">>,
    <<"\\ud803", "\\udcdd">>, <<"\\ud803", "\\udcde">>,
    <<"\\ud803", "\\udcdf">>, <<"\\ud803", "\\udce0">>,
    <<"\\ud803", "\\udce1">>, <<"\\ud803", "\\udce2">>,
    <<"\\ud803", "\\udce3">>, <<"\\ud803", "\\udce4">>,
    <<"\\ud803", "\\udce5">>, <<"\\ud803", "\\udce6">>,
    <<"\\ud803", "\\udce7">>, <<"\\ud803", "\\udce8">>,
    <<"\\ud803", "\\udce9">>, <<"\\ud803", "\\udcea">>,
    <<"\\ud803", "\\udceb">>, <<"\\ud803", "\\udcec">>,
    <<"\\ud803", "\\udced">>, <<"\\ud803", "\\udcee">>,
    <<"\\ud803", "\\udcef">>, <<"\\ud803", "\\udcf0">>,
    <<"\\ud803", "\\udcf1">>, <<"\\ud803", "\\udcf2">>,
    <<"\\ud803", "\\udd70">>, <<"\\ud803", "\\udd71">>,
    <<"\\ud803", "\\udd72">>, <<"\\ud803", "\\udd73">>,
    <<"\\ud803", "\\udd74">>, <<"\\ud803", "\\udd75">>,
    <<"\\ud803", "\\udd76">>, <<"\\ud803", "\\udd77">>,
    <<"\\ud803", "\\udd78">>, <<"\\ud803", "\\udd79">>,
    <<"\\ud803", "\\udd7a">>, <<"\\ud803", "\\udd7b">>,
    <<"\\ud803", "\\udd7c">>, <<"\\ud803", "\\udd7d">>,
    <<"\\ud803", "\\udd7e">>, <<"\\ud803", "\\udd7f">>,
    <<"\\ud803", "\\udd80">>, <<"\\ud803", "\\udd81">>,
    <<"\\ud803", "\\udd82">>, <<"\\ud803", "\\udd83">>,
    <<"\\ud803", "\\udd84">>, <<"\\ud803", "\\udd85">>,
    <<"\\ud806", "\\udcc0">>, <<"\\ud806", "\\udcc1">>,
    <<"\\ud806", "\\udcc2">>, <<"\\ud806", "\\udcc3">>,
    <<"\\ud806", "\\udcc4">>, <<"\\ud806", "\\udcc5">>,
    <<"\\ud806", "\\udcc6">>, <<"\\ud806", "\\udcc7">>,
    <<"\\ud806", "\\udcc8">>, <<"\\ud806", "\\udcc9">>,
    <<"\\ud806", "\\udcca">>, <<"\\ud806", "\\udccb">>,
    <<"\\ud806", "\\udccc">>, <<"\\ud806", "\\udccd">>,
    <<"\\ud806", "\\udcce">>, <<"\\ud806", "\\udccf">>,
    <<"\\ud806", "\\udcd0">>, <<"\\ud806", "\\udcd1">>,
    <<"\\ud806", "\\udcd2">>, <<"\\ud806", "\\udcd3">>,
    <<"\\ud806", "\\udcd4">>, <<"\\ud806", "\\udcd5">>,
    <<"\\ud806", "\\udcd6">>, <<"\\ud806", "\\udcd7">>,
    <<"\\ud806", "\\udcd8">>, <<"\\ud806", "\\udcd9">>,
    <<"\\ud806", "\\udcda">>, <<"\\ud806", "\\udcdb">>,
    <<"\\ud806", "\\udcdc">>, <<"\\ud806", "\\udcdd">>,
    <<"\\ud806", "\\udcde">>, <<"\\ud806", "\\udcdf">>,
    <<"\\ud81b", "\\ude60">>, <<"\\ud81b", "\\ude61">>,
    <<"\\ud81b", "\\ude62">>, <<"\\ud81b", "\\ude63">>,
    <<"\\ud81b", "\\ude64">>, <<"\\ud81b", "\\ude65">>,
    <<"\\ud81b", "\\ude66">>, <<"\\ud81b", "\\ude67">>,
    <<"\\ud81b", "\\ude68">>, <<"\\ud81b", "\\ude69">>,
    <<"\\ud81b", "\\ude6a">>, <<"\\ud81b", "\\ude6b">>,
    <<"\\ud81b", "\\ude6c">>, <<"\\ud81b", "\\ude6d">>,
    <<"\\ud81b", "\\ude6e">>, <<"\\ud81b", "\\ude6f">>,
    <<"\\ud81b", "\\ude70">>, <<"\\ud81b", "\\ude71">>,
    <<"\\ud81b", "\\ude72">>, <<"\\ud81b", "\\ude73">>,
    <<"\\ud81b", "\\ude74">>, <<"\\ud81b", "\\ude75">>,
    <<"\\ud81b", "\\ude76">>, <<"\\ud81b", "\\ude77">>,
    <<"\\ud81b", "\\ude78">>, <<"\\ud81b", "\\ude79">>,
    <<"\\ud81b", "\\ude7a">>, <<"\\ud81b", "\\ude7b">>,
    <<"\\ud81b", "\\ude7c">>, <<"\\ud81b", "\\ude7d">>,
    <<"\\ud81b", "\\ude7e">>, <<"\\ud81b", "\\ude7f">>,
    <<"\\ud81b", "\\udebb">>, <<"\\ud81b", "\\udebc">>,
    <<"\\ud81b", "\\udebd">>, <<"\\ud81b", "\\udebe">>,
    <<"\\ud81b", "\\udebf">>, <<"\\ud81b", "\\udec0">>,
    <<"\\ud81b", "\\udec1">>, <<"\\ud81b", "\\udec2">>,
    <<"\\ud81b", "\\udec3">>, <<"\\ud81b", "\\udec4">>,
    <<"\\ud81b", "\\udec5">>, <<"\\ud81b", "\\udec6">>,
    <<"\\ud81b", "\\udec7">>, <<"\\ud81b", "\\udec8">>,
    <<"\\ud81b", "\\udec9">>, <<"\\ud81b", "\\udeca">>,
    <<"\\ud81b", "\\udecb">>, <<"\\ud81b", "\\udecc">>,
    <<"\\ud81b", "\\udecd">>, <<"\\ud81b", "\\udece">>,
    <<"\\ud81b", "\\udecf">>, <<"\\ud81b", "\\uded0">>,
    <<"\\ud81b", "\\uded1">>, <<"\\ud81b", "\\uded2">>,
    <<"\\ud81b", "\\uded3">>, <<"\\ud83a", "\\udd22">>,
    <<"\\ud83a", "\\udd23">>, <<"\\ud83a", "\\udd24">>,
    <<"\\ud83a", "\\udd25">>, <<"\\ud83a", "\\udd26">>,
    <<"\\ud83a", "\\udd27">>, <<"\\ud83a", "\\udd28">>,
    <<"\\ud83a", "\\udd29">>, <<"\\ud83a", "\\udd2a">>,
    <<"\\ud83a", "\\udd2b">>, <<"\\ud83a", "\\udd2c">>,
    <<"\\ud83a", "\\udd2d">>, <<"\\ud83a", "\\udd2e">>,
    <<"\\ud83a", "\\udd2f">>, <<"\\ud83a", "\\udd30">>,
    <<"\\ud83a", "\\udd31">>, <<"\\ud83a", "\\udd32">>,
    <<"\\ud83a", "\\udd33">>, <<"\\ud83a", "\\udd34">>,
    <<"\\ud83a", "\\udd35">>, <<"\\ud83a", "\\udd36">>,
    <<"\\ud83a", "\\udd37">>, <<"\\ud83a", "\\udd38">>,
    <<"\\ud83a", "\\udd39">>, <<"\\ud83a", "\\udd3a">>,
    <<"\\ud83a", "\\udd3b">>, <<"\\ud83a", "\\udd3c">>,
    <<"\\ud83a", "\\udd3d">>, <<"\\ud83a", "\\udd3e">>,
    <<"\\ud83a", "\\udd3f">>, <<"\\ud83a", "\\udd40">>,
    <<"\\ud83a", "\\udd41">>, <<"\\ud83a", "\\udd42">>,
    <<"\\ud83a", "\\udd43">>
  >>

\* the code units with the property Cased and not Case_Ignorable
Cased ==
  {
    "A", "B", "C", "D", "E", "F", "G", "H", "I", "J", "K", "L", "M", "N", "O",
    "P", "Q", "R", "S", "T", "U", "V", "W", "X", "Y", "Z", "a", "b", "c", "d",
    "e", "f", "g", "h", "i", "j", "k", "l", "m", "n", "o", "p", "q", "r", "s",
    "t", "u", "v", "w", "x", "y", "z", "ª", "µ", "º", "À", "Á", "Â", "Ã", "Ä",
    "Å", "Æ", "Ç", "È", "É", "Ê", "Ë", "Ì", "Í", "Î", "Ï", "Ð", "Ñ", "Ò", "Ó",
    "Ô", "Õ", "Ö", "Ø", "Ù", "Ú", "Û", "Ü", "Ý", "Þ", "ß", "à", "á", "â", "ã",
    "ä", "å", "æ", "ç", "è", "é", "ê", "ë", "ì", "í", "î", "ï", "ð", "ñ", "ò",
    "ó", "ô", "õ", "ö", "ø", "ù", "ú", "û", "ü", "ý", "þ", "ÿ", "\\u0100",
    "\\u0101", "\\u0102", "\\u0103", "\\u0104", "\\u0105", "\\u0106",
    "\\u0107", "\\u0108", "\\u0109", "\\u010a", "\\u010b", "\\u010c",
    "\\u010d", "\\u010e", "\\u010f", "\\u0110", "\\u0111", "\\u0112",
    "\\u0113", "\\u0114", "\\u0115", "\\u0116", "\\u0117", "\\u0118",
    "\\u0119", "\\u011a", "\\u011b", "\\u011c", "\\u011d", "\\u011e",
    "\\u011f", "\\u0120", "\\u0121", "\\u0122", "\\u0123", "\\u0124",
    "\\u0125", "\\u0126", "\\u0127", "\\u0128", "\\u0129", "\\u012a",
    "\\u012b", "\\u012c", "\\u012d", "\\u012e", "\\u012f", "\\u0130",
    "\\u0131", "\\u0132", "\\u0133", "\\u0134", "\\u0135", "\\u0136",
    "\\u0137", "\\u0138", "\\u0139", "\\u013a", "\\u013b", "\\u013c",
    "\\u013d", "\\u013e", "\\u013f", "\\u0140", "\\u0141", "\\u0142",
    "\\u0143", "\\u0144", "\\u0145", "\\u0146", "\\u0147", "\\u0148",
    "\\u0149", "\\u014a", "\\u014b", "\\u014c", "\\u014d", "\\u014e",
    "\\u014f", "\\u0150", "\\u0151", "\\u0152", "\\u0153", "\\u0154",
    "\\u0155", "\\u0156", "\\u0157", "\\u0158", "\\u0159", "\\u015a",
    "\\u015b", "\\u015c", "\\u015d", "\\u015e", "\\u015f", "\\u0160",
    "\\u0161", "\\u0162", "\\u0163", "\\u0164", "\\u0165", "\\u0166",
    "\\u0167", "\\u0168", "\\u0169", "\\u016a", "\\u016b", "\\u016c",
    "\\u016d", "\\u016e", "\\u016f", "\\u0170", "\\u0171", "\\u0172",
    "\\u0173", "\\u0174", "\\u0175", "\\u0176", "\\u0177", "\\u0178",
    "\\u0179", "\\u017a", "\\u017b", "\\u017c", "\\u017d", "\\u017e",
    "\\u017f", "\\u0180", "\\u0181", "\\u0182", "\\u0183", "\\u0184",
    "\\u0185", "\\u0186", "\\u0187", "\\u0188", "\\u0189", "\\u018a",
    "\\u018b", "\\u018c", "\\u018d", "\\u018e", "\\u018f", "\\u0190",
    "\\u0191", "\\u0192", "\\u0193", "\\u0194", "\\u0195", "\\u0196",
    "\\u0197", "\\u0198", "\\u0199", "\\u019a", "\\u019b", "\\u019c",
    "\\u019d", "\\u019e", "\\u019f", "\\u01a0", "\\u01a1", "\\u01a2",
    "\\u01a3", "\\u01a4", "\\u01a5", "\\u01a6", "\\u01a7", "\\u01a8",
    "\\u01a9", "\\u01aa", "\\u01ab", "\\u01ac", "\\u01ad", "\\u01ae",
    "\\u01af", "\\u01b0", "\\u01b1", "\\u01b2", "\\u01b3", "\\u01b4",
    "\\u01b5", "\\u01b6", "\\u01b7", "\\u01b8", "\\u01b9", "\\u01ba",
    "\\u01bc", "\\u01bd", "\\u01be", "\\u01bf", "\\u01c4", "\\u01c5",
    "\\u01c6", "\\u01c7", "\\u01c8", "\\u01c9", "\\u01ca", "\\u01cb",
    "\\u01cc", "\\u01cd", "\\u01ce", "\\u01cf", "\\u01d0", "\\u01d1",
    "\\u01d2", "\\u01d3", "\\u01d4", "\\u01d5", "\\u01d6", "\\u01d7",
    "\\u01d8", "\\u01d9", "\\u01da", "\\u01db", "\\u01dc", "\\u01dd",
    "\\u01de", "\\u01df", "\\u01e0", "\\u01e1", "\\u01e2", "\\u01e3",
    "\\u01e4", "\\u01e5", "\\u01e6", "\\u01e7", "\\u01e8", "\\u01e9",
    "\\u01ea", "\\u01eb", "\\u01ec", "\\u01ed", "\\u01ee", "\\u01ef",
    "\\u01f0", "\\u01f1", "\\u01f2", "\\u01f3", "\\u01f4", "\\u01f5",
    "\\u01f6", "\\u01f7", "\\u01f8", "\\u01f9", "\\u01fa", "\\u01fb",
    "\\u01fc", "\\u01fd", "\\u01fe", "\\u01ff", "\\u0200", "\\u0201",
    "\\u0202", "\\u0203", "\\u0204", "\\u0205", "\\u0206", "\\u0207",
    "\\u0208", "\\u0209", "\\u020a", "\\u020b", "\\u020c", "\\u020d",
    "\\u020e", "\\u020f", "\\u0210", "\\u0211", "\\u0212", "\\u0213",
    "\\u0214", "\\u0215", "\\u0216", "\\u0217", "\\u0218", "\\u0219",
    "\\u021a", "\\u021b", "\\u021c", "\\u021d", "\\u021e", "\\u021f",
    "\\u0220", "\\u0221", "\\u0222", "\\u0223", "\\u0224", "\\u0225",
    "\\u0226", "\\u0227", "\\u0228", "\\u0229", "\\u022a", "\\u022b",
    "\\u022c", "\\u022d", "\\u022e", "\\u022f", "\\u0230", "\\u0231",
    "\\u0232", "\\u0233", "\\u0234", "\\u0235", "\\u0236", "\\u0237",
    "\\u0238", "\\u0239", "\\u023a", "\\u023b", "\\u023c", "\\u023d",
    "\\u023e", "\\u023f", "\\u0240", "\\u0241", "\\u0242", "\\u0243",
    "\\u0244", "\\u0245", "\\u0246", "\\u0247", "\\u0248", "\\u0249",
    "\\u024a", "\\u024b", "\\u024c", "\\u024d", "\\u024e", "\\u024f",
    "\\u0250", "\\u0251", "\\u0252", "\\u0253", "\\u0254", "\\u0255",
    "\\u0256", "\\u0257", "\\u0258", "\\u0259", "\\u025a", "\\u025b",
    "\\u025c", "\\u025d", "\\u025e", "\\u025f", "\\u0260", "\\u0261",
    "\\u0262", "\\u0263", "\\u0264", "\\u0265", "\\u0266", "\\u0267",
    "\\u0268", "\\u0269", "\\u026a", "\\u026b", "\\u026c", "\\u026d",
    "\\u026e", "\\u026f", "\\u0270", "\\u0271", "\\u0272", "\\u0273",
    "\\u0274", "\\u0275", "\\u0276", "\\u0277", "\\u0278", "\\u0279",
    "\\u027a", "\\u027b", "\\u027c", "\\u027d", "\\u027e", "\\u027f",
    "\\u0280", "\\u0281", "\\u0282", "\\u0283", "\\u0284", "\\u0285",
    "\\u0286", "\\u0287", "\\u0288", "\\u0289", "\\u028a", "\\u028b",
    "\\u028c", "\\u028d", "\\u028e", "\\u028f", "\\u0290", "\\u0291",
    "\\u0292", "\\u0293", "\\u0296", "\\u0297", "\\u0298", "\\u0299",
    "\\u029a", "\\u029b", "\\u029c", "\\u029d", "\\u029e", "\\u029f",
    "\\u02a0", "\\u02a1", "\\u02a2", "\\u02a3", "\\u02a4", "\\u02a5",
    "\\u02a6", "\\u02a7", "\\u02a8", "\\u02a9", "\\u02aa", "\\u02ab",
    "\\u02ac", "\\u02ad", "\\u02ae", "\\u02af", "\\u0370", "\\u0371",
    "\\u0372", "\\u0373", "\\u0376", "\\u0377", "\\u037b", "\\u037c",
    "\\u037d", "\\u037f", "\\u0386", "\\u0388", "\\u0389", "\\u038a",
    "\\u038c", "\\u038e", "\\u038f", "\\u0390", "\\u0391", "\\u0392",
    "\\u0393", "\\u0394", "\\u0395", "\\u0396", "\\u0397", "\\u0398",
    "\\u0399", "\\u039a", "\\u039b", "\\u039c", "\\u039d", "\\u039e",
    "\\u039f", "\\u03a0", "\\u03a1", "\\u03a3", "\\u03a4", "\\u03a5",
    "\\u03a6", "\\u03a7", "\\u03a8", "\\u03a9", "\\u03aa", "\\u03ab",
    "\\u03ac", "\\u03ad", "\\u03ae", "\\u03af", "\\u03b0", "\\u03b1",
    "\\u03b2", "\\u03b3", "\\u03b4", "\\u03b5", "\\u03b6", "\\u03b7",
    "\\u03b8", "\\u03b9", "\\u03ba", "\\u03bb", "\\u03bc", "\\u03bd",
    "\\u03be", "\\u03bf", "\\u03c0", "\\u03c1", "\\u03c2", "\\u03c3",
    "\\u03c4", "\\u03c5", "\\u03c6", "\\u03c7", "\\u03c8", "\\u03c9",
    "\\u03ca", "\\u03cb", "\\u03cc", "\\u03cd", "\\u03ce", "\\u03cf",
    "\\u03d0", "\\u03d1", "\\u03d2", "\\u03d3", "\\u03d4", "\\u03d5",
    "\\u03d6", "\\u03d7", "\\u03d8", "\\u03d9", "\\u03da", "\\u03db",
    "\\u03dc", "\\u03dd", "\\u03de", "\\u03df", "\\u03e0", "\\u03e1",
    "\\u03e2", "\\u03e3", "\\u03e4", "\\u03e5", "\\u03e6", "\\u03e7",
    "\\u03e8", "\\u03e9", "\\u03ea", "\\u03eb", "\\u03ec", "\\u03ed",
    "\\u03ee", "\\u03ef", "\\u03f0", "\\u03f1", "\\u03f2", "\\u03f3",
    "\\u03f4", "\\u03f5", "\\u03f7", "\\u03f8", "\\u03f9", "\\u03fa",
    "\\u03fb", "\\u03fc", "\\u03fd", "\\u03fe", "\\u03ff", "\\u0400",
    "\\u0401", "\\u0402", "\\u0403", "\\u0404", "\\u0405", "\\u0406",
    "\\u0407", "\\u0408", "\\u0409", "\\u040a", "\\u040b", "\\u040c",
    "\\u040d", "\\u040e", "\\u040f", "\\u0410", "\\u0411", "\\u0412",
    "\\u0413", "\\u0414", "\\u0415", "\\u0416", "\\u0417", "\\u0418",
    "\\u0419", "\\u041a", "\\u041b", "\\u041c", "\\u041d", "\\u041e",
    "\\u041f", "\\u0420", "\\u0421", "\\u0422", "\\u0423", "\\u0424",
    "\\u0425", "\\u0426", "\\u0427", "\\u0428", "\\u0429", "\\u042a",
    "\\u042b", "\\u042c", "\\u042d", "\\u042e", "\\u042f", "\\u0430",
    "\\u0431", "\\u0432", "\\u0433", "\\u0434", "\\u0435", "\\u0436",
    "\\u0437", "\\u0438", "\\u0439", "\\u043a", "\\u043b", "\\u043c",
    "\\u043d", "\\u043e", "\\u043f", "\\u0440", "\\u0441", "\\u0442",
    "\\u0443", "\\u0444", "\\u0445", "\\u0446", "\\u0447", "\\u0448",
    "\\u0449", "\\u044a", "\\u044b", "\\u044c", "\\u044d", "\\u044e",
    "\\u044f", "\\u0450", "\\u0451", "\\u0452", "\\u0453", "\\u0454",
    "\\u0455", "\\u0456", "\\u0457", "\\u0458", "\\u0459", "\\u045a",
    "\\u045b", "\\u045c", "\\u045d", "\\u045e", "\\u045f", "\\u0460",
    "\\u0461", "\\u0462", "\\u0463", "\\u0464", "\\u0465", "\\u0466",
    "\\u0467", "\\u0468", "\\u0469", "\\u046a", "\\u046b", "\\u046c",
    "\\u046d", "\\u046e", "\\u046f", "\\u0470", "\\u0471", "\\u0472",
    "\\u0473", "\\u0474", "\\u0475", "\\u0476", "\\u0477", "\\u0478",
    "\\u0479", "\\u047a", "\\u047b", "\\u047c", "\\u047d", "\\u047e",
    "\\u047f", "\\u0480", "\\u0481", "\\u048a", "\\u048b", "\\u048c",
    "\\u048d", "\\u048e", "\\u048f", "\\u0490", "\\u0491", "\\u0492",
    "\\u0493", "\\u0494", "\\u0495", "\\u0496", "\\u0497", "\\u0498",
    "\\u0499", "\\u049a", "\\u049b", "\\u049c", "\\u049d", "\\u049e",
    "\\u049f", "\\u04a0", "\\u04a1", "\\u04a2", "\\u04a3", "\\u04a4",
    "\\u04a5", "\\u04a6", "\\u04a7", "\\u04a8", "\\u04a9", "\\u04aa",
    "\\u04ab", "\\u04ac", "\\u04ad", "\\u04ae", "\\u04af", "\\u04b0",
    "\\u04b1", "\\u04b2", "\\u04b3", "\\u04b4", "\\u04b5", "\\u04b6",
    "\\u04b7", "\\u04b8", "\\u04b9", "\\u04ba", "\\u04bb", "\\u04bc",
    "\\u04bd", "\\u04be", "\\u04bf", "\\u04c0", "\\u04c1", "\\u04c2",
    "\\u04c3", "\\u04c4", "\\u04c5", "\\u04c6", "\\u04c7", "\\u04c8",
    "\\u04c9", "\\u04ca", "\\u04cb", "\\u04cc", "\\u04cd", "\\u04ce",
    "\\u04cf", "\\u04d0", "\\u04d1", "\\u04d2", "\\u04d3", "\\u04d4",
    "\\u04d5", "\\u04d6", "\\u04d7", "\\u04d8", "\\u04d9", "\\u04da",
    "\\u04db", "\\u04dc", "\\u04dd", "\\u04de", "\\u04df", "\\u04e0",
    "\\u04e1", "\\u04e2", "\\u04e3", "\\u04e4", "\\u04e5", "\\u04e6",
    "\\u04e7", "\\u04e8", "\\u04e9", "\\u04ea", "\\u04eb", "\\u04ec",
    "\\u04ed", "\\u04ee", "\\u04ef", "\\u04f0", "\\u04f1", "\\u04f2",
    "\\u04f3", "\\u04f4", "\\u04f5", "\\u04f6", "\\u04f7", "\\u04f8",
    "\\u04f9", "\\u04fa", "\\u04fb", "\\u04fc", "\\u04fd", "\\u04fe",
    "\\u04ff", "\\u0500", "\\u0501", "\\u0502", "\\u0503", "\\u0504",
    "\\u0505", "\\u0506", "\\u0507", "\\u0508", "\\u0509", "\\u050a",
    "\\u050b", "\\u050c", "\\u050d", "\\u050e", "\\u050f", "\\u0510",
    "\\u0511", "\\u0512", "\\u0513", "\\u0514", "\\u0515", "\\u0516",
    "\\u0517", "\\u0518", "\\u0519", "\\u051a", "\\u051b", "\\u051c",
    "\\u051d", "\\u051e", "\\u051f", "\\u0520", "\\u0521", "\\u0522",
    "\\u0523", "\\u0524", "\\u0525", "\\u0526", "\\u0527", "\\u0528",
    "\\u0529", "\\u052a", "\\u052b", "\\u052c", "\\u052d", "\\u052e",
    "\\u052f", "\\u0531", "\\u0532", "\\u0533", "\\u0534", "\\u0535",
    "\\u0536", "\\u0537", "\\u0538", "\\u0539", "\\u053a", "\\u053b",
    "\\u053c", "\\u053d", "\\u053e", "\\u053f", "\\u0540", "\\u0541",
    "\\u0542", "\\u0543", "\\u0544", "\\u0545", "\\u0546", "\\u0547",
    "\\u0548", "\\u0549", "\\u054a", "\\u054b", "\\u054c", "\\u054d",
    "\\u054e", "\\u054f", "\\u0550", "\\u0551", "\\u0552", "\\u0553",
    "\\u0554", "\\u0555", "\\u0556", "\\u0560", "\\u0561", "\\u0562",
    "\\u0563", "\\u0564", "\\u0565", "\\u0566", "\\u0567", "\\u0568",
    "\\u0569", "\\u056a", "\\u056b", "\\u056c", "\\u056d", "\\u056e",
    "\\u056f", "\\u0570", "\\u0571", "\\u0572", "\\u0573", "\\u0574",
    "\\u0575", "\\u0576", "\\u0577", "\\u0578", "\\u0579", "\\u057a",
    "\\u057b", "\\u057c", "\\u057d", "\\u057e", "\\u057f", "\\u0580",
    "\\u0581", "\\u0582", "\\u0583", "\\u0584", "\\u0585", "\\u0586",
    "\\u0587", "\\u0588", "\\u10a0", "\\u10a1", "\\u10a2", "\\u10a3",
    "\\u10a4", "\\u10a5", "\\u10a6", "\\u10a7", "\\u10a8", "\\u10a9",
    "\\u10aa", "\\u10ab", "\\u10ac", "\\u10ad", "\\u10ae", "\\u10af",
    "\\u10b0", "\\u10b1", "\\u10b2", "\\u10b3", "\\u10b4", "\\u10b5",
    "\\u10b6", "\\u10b7", "\\u10b8", "\\u10b9", "\\u10ba", "\\u10bb",
    "\\u10bc", "\\u10bd", "\\u10be", "\\u10bf", "\\u10c0", "\\u10c1",
    "\\u10c2", "\\u10c3", "\\u10c4", "\\u10c5", "\\u10c7", "\\u10cd",
    "\\u10d0", "\\u10d1", "\\u10d2", "\\u10d3", "\\u10d4", "\\u10d5",
    "\\u10d6", "\\u10d7", "\\u10d8", "\\u10d9", "\\u10da", "\\u10db",
    "\\u10dc", "\\u10dd", "\\u10de", "\\u10df", "\\u10e0", "\\u10e1",
    "\\u10e2", "\\u10e3", "\\u10e4", "\\u10e5", "\\u10e6", "\\u10e7",
    "\\u10e8", "\\u10e9", "\\u10ea", "\\u10eb", "\\u10ec", "\\u10ed",
    "\\u10ee", "\\u10ef", "\\u10f0", "\\u10f1", "\\u10f2", "\\u10f3",
    "\\u10f4", "\\u10f5", "\\u10f6", "\\u10f7", "\\u10f8", "\\u10f9",
    "\\u10fa", "\\u10fd", "\\u10fe", "\\u10ff", "\\u13a0", "\\u13a1",
    "\\u13a2", "\\u13a3", "\\u13a4", "\\u13a5", "\\u13a6", "\\u13a7",
    "\\u13a8", "\\u13a9", "\\u13aa", "\\u13ab", "\\u13ac", "\\u13ad",
    "\\u13ae", "\\u13af", "\\u13b0", "\\u13b1", "\\u13b2", "\\u13b3",
    "\\u13b4", "\\u13b5", "\\u13b6", "\\u13b7", "\\u13b8", "\\u13b9",
    "\\u13ba", "\\u13bb", "\\u13bc", "\\u13bd", "\\u13be", "\\u13bf",
    "\\u13c0", "\\u13c1", "\\u13c2", "\\u13c3", "\\u13c4", "\\u13c5",
    "\\u13c6", "\\u13c7", "\\u13c8", "\\u13c9", "\\u13ca", "\\u13cb",
    "\\u13cc", "\\u13cd", "\\u13ce", "\\u13cf", "\\u13d0", "\\u13d1",
    "\\u13d2", "\\u13d3", "\\u13d4", "\\u13d5", "\\u13d6", "\\u13d7",
    "\\u13d8", "\\u13d9", "\\u13da", "\\u13db", "\\u13dc", "\\u13dd",
    "\\u13de", "\\u13df", "\\u13e0", "\\u13e1", "\\u13e2", "\\u13e3",
    "\\u13e4", "\\u13e5", "\\u13e6", "\\u13e7", "\\u13e8", "\\u13e9",
    "\\u13ea", "\\u13eb", "\\u13ec", "\\u13ed", "\\u13ee", "\\u13ef",
    "\\u13f0", "\\u13f1", "\\u13f2", "\\u13f3", "\\u13f4", "\\u13f5",
    "\\u13f8", "\\u13f9", "\\u13fa", "\\u13fb", "\\u13fc", "\\u13fd",
    "\\u1c80", "\\u1c81", "\\u1c82", "\\u1c83", "\\u1c84", "\\u1c85",
    "\\u1c86", "\\u1c87", "\\u1c88", "\\u1c89", "\\u1c8a", "\\u1c90",
    "\\u1c91", "\\u1c92", "\\u1c93", "\\u1c94", "\\u1c95", "\\u1c96",
    "\\u1c97", "\\u1c98", "\\u1c99", "\\u1c9a", "\\u1c9b", "\\u1c9c",
    "\\u1c9d", "\\u1c9e", "\\u1c9f", "\\u1ca0", "\\u1ca1", "\\u1ca2",
    "\\u1ca3", "\\u1ca4", "\\u1ca5", "\\u1ca6", "\\u1ca7", "\\u1ca8",
    "\\u1ca9", "\\u1caa", "\\u1cab", "\\u1cac", "\\u1cad", "\\u1cae",
    "\\u1caf", "\\u1cb0", "\\u1cb1", "\\u1cb2", "\\u1cb3", "\\u1cb4",
    "\\u1cb5", "\\u1cb6", "\\u1cb7", "\\u1cb8", "\\u1cb9", "\\u1cba",
    "\\u1cbd", "\\u1cbe", "\\u1cbf", "\\u1d00", "\\u1d01", "\\u1d02",
    "\\u1d03", "\\u1d04", "\\u1d05", "\\u1d06", "\\u1d07", "\\u1d08",
    "\\u1d09", "\\u1d0a", "\\u1d0b", "\\u1d0c", "\\u1d0d", "\\u1d0e",
    "\\u1d0f", "\\u1d10", "\\u1d11", "\\u1d12", "\\u1d13", "\\u1d14",
    "\\u1d15", "\\u1d16", "\\u1d17", "\\u1d18", "\\u1d19", "\\u1d1a",
    "\\u1d1b", "\\u1d1c", "\\u1d1d", "\\u1d1e", "\\u1d1f", "\\u1d20",
    "\\u1d21", "\\u1d22", "\\u1d23", "\\u1d24", "\\u1d25", "\\u1d26",
    "\\u1d27", "\\u1d28", "\\u1d29", "\\u1d2a", "\\u1d2b", "\\u1d6b",
    "\\u1d6c", "\\u1d6d", "\\u1d6e", "\\u1d6f", "\\u1d70", "\\u1d71",
    "\\u1d72", "\\u1d73", "\\u1d74", "\\u1d75", "\\u1d76", "\\u1d77",
    "\\u1d79", "\\u1d7a", "\\u1d7b", "\\u1d7c", "\\u1d7d", "\\u1d7e",
    "\\u1d7f", "\\u1d80", "\\u1d81", "\\u1d82", "\\u1d83", "\\u1d84",
    "\\u1d85", "\\u1d86", "\\u1d87", "\\u1d88", "\\u1d89", "\\u1d8a",
    "\\u1d8b", "\\u1d8c", "\\u1d8d", "\\u1d8e", "\\u1d8f", "\\u1d90",
    "\\u1d91", "\\u1d92", "\\u1d93", "\\u1d94", "\\u1d95", "\\u1d96",
    "\\u1d97", "\\u1d98", "\\u1d99", "\\u1d9a", "\\u1e00", "\\u1e01",
    "\\u1e02", "\\u1e03", "\\u1e04", "\\u1e05", "\\u1e06", "\\u1e07",
    "\\u1e08", "\\u1e09", "\\u1e0a", "\\u1e0b", "\\u1e0c", "\\u1e0d",
    "\\u1e0e", "\\u1e0f", "\\u1e10", "\\u1e11", "\\u1e12", "\\u1e13",
    "\\u1e14", "\\u1e15", "\\u1e16", "\\u1e17", "\\u1e18", "\\u1e19",
    "\\u1e1a", "\\u1e1b", "\\u1e1c", "\\u1e1d", "\\u1e1e", "\\u1e1f",
    "\\u1e20", "\\u1e21", "\\u1e22", "\\u1e23", "\\u1e24", "\\u1e25",
    "\\u1e26", "\\u1e27", "\\u1e28", "\\u1e29", "\\u1e2a", "\\u1e2b",
    "\\u1e2c", "\\u1e2d", "\\u1e2e", "\\u1e2f", "\\u1e30", "\\u1e31",
    "\\u1e32", "\\u1e33", "\\u1e34", "\\u1e35", "\\u1e36", "\\u1e37",
    "\\u1e38", "\\u1e39", "\\u1e3a", "\\u1e3b", "\\u1e3c", "\\u1e3d",
    "\\u1e3e", "\\u1e3f", "\\u1e40", "\\u1e41", "\\u1e42", "\\u1e43",
    "\\u1e44", "\\u1e45", "\\u1e46", "\\u1e47", "\\u1e48", "\\u1e49",
    "\\u1e4a", "\\u1e4b", "\\u1e4c", "\\u1e4d", "\\u1e4e", "\\u1e4f",
    "\\u1e50", "\\u1e51", "\\u1e52", "\\u1e53", "\\u1e54", "\\u1e55",
    "\\u1e56", "\\u1e57", "\\u1e58", "\\u1e59", "\\u1e5a", "\\u1e5b",
    "\\u1e5c", "\\u1e5d", "\\u1e5e", "\\u1e5f", "\\u1e60", "\\u1e61",
    "\\u1e62", "\\u1e63", "\\u1e64", "\\u1e65", "\\u1e66", "\\u1e67",
    "\\u1e68", "\\u1e69", "\\u1e6a", "\\u1e6b", "\\u1e6c", "\\u1e6d",
    "\\u1e6e", "\\u1e6f", "\\u1e70", "\\u1e71", "\\u1e72", "\\u1e73",
    "\\u1e74", "\\u1e75", "\\u1e76", "\\u1e77", "\\u1e78", "\\u1e79",
    "\\u1e7a", "\\u1e7b", "\\u1e7c", "\\u1e7d", "\\u1e7e", "\\u1e7f",
    "\\u1e80", "\\u1e81", "\\u1e82", "\\u1e83", "\\u1e84", "\\u1e85",
    "\\u1e86", "\\u1e87", "\\u1e88", "\\u1e89", "\\u1e8a", "\\u1e8b",
    "\\u1e8c", "\\u1e8d", "\\u1e8e", "\\u1e8f", "\\u1e90", "\\u1e91",
    "\\u1e92", "\\u1e93", "\\u1e94", "\\u1e95", "\\u1e96", "\\u1e97",
    "\\u1e98", "\\u1e99", "\\u1e9a", "\\u1e9b", "\\u1e9c", "\\u1e9d",
    "\\u1e9e", "\\u1e9f", "\\u1ea0", "\\u1ea1", "\\u1ea2", "\\u1ea3",
    "\\u1ea4", "\\u1ea5", "\\u1ea6", "\\u1ea7", "\\u1ea8", "\\u1ea9",
    "\\u1eaa", "\\u1eab", "\\u1eac", "\\u1ead", "\\u1eae", "\\u1eaf",
    "\\u1eb0", "\\u1eb1", "\\u1eb2", "\\u1eb3", "\\u1eb4", "\\u1eb5",
    "\\u1eb6", "\\u1eb7", "\\u1eb8", "\\u1eb9", "\\u1eba", "\\u1ebb",
    "\\u1ebc", "\\u1ebd", "\\u1ebe", "\\u1ebf", "\\u1ec0", "\\u1ec1",
    "\\u1ec2", "\\u1ec3", "\\u1ec4", "\\u1ec5", "\\u1ec6", "\\u1ec7",
    "\\u1ec8", "\\u1ec9", "\\u1eca", "\\u1ecb", "\\u1ecc", "\\u1ecd",
    "\\u1ece", "\\u1ecf", "\\u1ed0", "\\u1ed1", "\\u1ed2", "\\u1ed3",
    "\\u1ed4", "\\u1ed5", "\\u1ed6", "\\u1ed7", "\\u1ed8", "\\u1ed9",
    "\\u1eda", "\\u1edb", "\\u1edc", "\\u1edd", "\\u1ede", "\\u1edf",
    "\\u1ee0", "\\u1ee1", "\\u1ee2", "\\u1ee3", "\\u1ee4", "\\u1ee5",
    "\\u1ee6", "\\u1ee7", "\\u1ee8", "\\u1ee9", "\\u1eea", "\\u1eeb",
    "\\u1eec", "\\u1eed", "\\u1eee", "\\u1eef", "\\u1ef0", "\\u1ef1",
    "\\u1ef2", "\\u1ef3", "\\u1ef4", "\\u1ef5", "\\u1ef6", "\\u1ef7",
    "\\u1ef8", "\\u1ef9", "\\u1efa", "\\u1efb", "\\u1efc", "\\u1efd",
    "\\u1efe", "\\u1eff", "\\u1f00", "\\u1f01", "\\u1f02", "\\u1f03",
    "\\u1f04", "\\u1f05", "\\u1f06", "\\u1f07", "\\u1f08", "\\u1f09",
    "\\u1f0a", "\\u1f0b", "\\u1f0c", "\\u1f0d", "\\u1f0e", "\\u1f0f",
    "\\u1f10", "\\u1f11", "\\u1f12", "\\u1f13", "\\u1f14", "\\u1f15",
    "\\u1f18", "\\u1f19", "\\u1f1a", "\\u1f1b", "\\u1f1c", "\\u1f1d",
    "\\u1f20", "\\u1f21", "\\u1f22", "\\u1f23", "\\u1f24", "\\u1f25",
    "\\u1f26", "\\u1f27", "\\u1f28", "\\u1f29", "\\u1f2a", "\\u1f2b",
    "\\u1f2c", "\\u1f2d", "\\u1f2e", "\\u1f2f", "\\u1f30", "\\u1f31",
    "\\u1f32", "\\u1f33", "\\u1f34", "\\u1f35", "\\u1f36", "\\u1f37",
    "\\u1f38", "\\u1f39", "\\u1f3a", "\\u1f3b", "\\u1f3c", "\\u1f3d",
    "\\u1f3e", "\\u1f3f", "\\u1f40", "\\u1f41", "\\u1f42", "\\u1f43",
    "\\u1f44", "\\u1f45", "\\u1f48", "\\u1f49", "\\u1f4a", "\\u1f4b",
    "\\u1f4c", "\\u1f4d", "\\u1f50", "\\u1f51", "\\u1f52", "\\u1f53",
    "\\u1f54", "\\u1f55", "\\u1f56", "\\u1f57", "\\u1f59", "\\u1f5b",
    "\\u1f5d", "\\u1f5f", "\\u1f60", "\\u1f61", "\\u1f62", "\\u1f63",
    "\\u1f64", "\\u1f65", "\\u1f66", "\\u1f67", "\\u1f68", "\\u1f69",
    "\\u1f6a", "\\u1f6b", "\\u1f6c", "\\u1f6d", "\\u1f6e", "\\u1f6f",
    "\\u1f70", "\\u1f71", "\\u1f72", "\\u1f73", "\\u1f74", "\\u1f75",
    "\\u1f76", "\\u1f77", "\\u1f78", "\\u1f79", "\\u1f7a", "\\u1f7b",
    "\\u1f7c", "\\u1f7d", "\\u1f80", "\\u1f81", "\\u1f82", "\\u1f83",
    "\\u1f84", "\\u1f85", "\\u1f86", "\\u1f87", "\\u1f88", "\\u1f89",
    "\\u1f8a", "\\u1f8b", "\\u1f8c", "\\u1f8d", "\\u1f8e", "\\u1f8f",
    "\\u1f90", "\\u1f91", "\\u1f92", "\\u1f93", "\\u1f94", "\\u1f95",
    "\\u1f96", "\\u1f97", "\\u1f98", "\\u1f99", "\\u1f9a", "\\u1f9b",
    "\\u1f9c", "\\u1f9d", "\\u1f9e", "\\u1f9f", "\\u1fa0", "\\u1fa1",
    "\\u1fa2", "\\u1fa3", "\\u1fa4", "\\u1fa5", "\\u1fa6", "\\u1fa7",
    "\\u1fa8", "\\u1fa9", "\\u1faa", "\\u1fab", "\\u1fac", "\\u1fad",
    "\\u1fae", "\\u1faf", "\\u1fb0", "\\u1fb1", "\\u1fb2", "\\u1fb3",
    "\\u1fb4", "\\u1fb6", "\\u1fb7", "\\u1fb8", "\\u1fb9", "\\u1fba",
    "\\u1fbb", "\\u1fbc", "\\u1fbe", "\\u1fc2", "\\u1fc3", "\\u1fc4",
    "\\u1fc6", "\\u1fc7", "\\u1fc8", "\\u1fc9", "\\u1fca", "\\u1fcb",
    "\\u1fcc", "\\u1fd0", "\\u1fd1", "\\u1fd2", "\\u1fd3", "\\u1fd6",
    "\\u1fd7", "\\u1fd8", "\\u1fd9", "\\u1fda", "\\u1fdb", "\\u1fe0",
    "\\u1fe1", "\\u1fe2", "\\u1fe3", "\\u1fe4", "\\u1fe5", "\\u1fe6",
    "\\u1fe7", "\\u1fe8", "\\u1fe9", "\\u1fea", "\\u1feb", "\\u1fec",
    "\\u1ff2", "\\u1ff3", "\\u1ff4", "\\u1ff6", "\\u1ff7", "\\u1ff8",
    "\\u1ff9", "\\u1ffa", "\\u1ffb", "\\u1ffc", "\\u2102", "\\u2107",
    "\\u210a", "\\u210b", "\\u210c", "\\u210d", "\\u210e", "\\u210f",
    "\\u2110", "\\u2111", "\\u2112", "\\u2113", "\\u2115", "\\u2119",
    "\\u211a", "\\u211b", "\\u211c", "\\u211d", "\\u2124", "\\u2126",
    "\\u2128", "\\u212a", "\\u212b", "\\u212c", "\\u212d", "\\u212f",
    "\\u2130", "\\u2131", "\\u2132", "\\u2133", "\\u2134", "\\u2139",
    "\\u213c", "\\u213d", "\\u213e", "\\u213f", "\\u2145", "\\u2146",
    "\\u2147", "\\u2148", "\\u2149", "\\u214e", "\\u2160", "\\u2161",
    "\\u2162", "\\u2163", "\\u2164", "\\u2165", "\\u2166", "\\u2167",
    "\\u2168", "\\u2169", "\\u216a", "\\u216b", "\\u216c", "\\u216d",
    "\\u216e", "\\u216f", "\\u2170", "\\u2171", "\\u2172", "\\u2173",
    "\\u2174", "\\u2175", "\\u2176", "\\u2177", "\\u2178", "\\u2179",
    "\\u217a", "\\u217b", "\\u217c", "\\u217d", "\\u217e", "\\u217f",
    "\\u2183", "\\u2184", "\\u24b6", "\\u24b7", "\\u24b8", "\\u24b9",
    "\\u24ba", "\\u24bb", "\\u24bc", "\\u24bd", "\\u24be", "\\u24bf",
    "\\u24c0", "\\u24c1", "\\u24c2", "\\u24c3", "\\u24c4", "\\u24c5",
    "\\u24c6", "\\u24c7", "\\u24c8", "\\u24c9", "\\u24ca", "\\u24cb",
    "\\u24cc", "\\u24cd", "\\u24ce", "\\u24cf", "\\u24d0", "\\u24d1",
    "\\u24d2", "\\u24d3", "\\u24d4", "\\u24d5", "\\u24d6", "\\u24d7",
    "\\u24d8", "\\u24d9", "\\u24da", "\\u24db", "\\u24dc", "\\u24dd",
    "\\u24de", "\\u24df", "\\u24e0", "\\u24e1", "\\u24e2", "\\u24e3",
    "\\u24e4", "\\u24e5", "\\u24e6", "\\u24e7", "\\u24e8", "\\u24e9",
    "\\u2c00", "\\u2c01", "\\u2c02", "\\u2c03", "\\u2c04", "\\u2c05",
    "\\u2c06", "\\u2c07", "\\u2c08", "\\u2c09", "\\u2c0a", "\\u2c0b",
    "\\u2c0c", "\\u2c0d", "\\u2c0e", "\\u2c0f", "\\u2c10", "\\u2c11",
    "\\u2c12", "\\u2c13", "\\u2c14", "\\u2c15", "\\u2c16", "\\u2c17",
    "\\u2c18", "\\u2c19", "\\u2c1a", "\\u2c1b", "\\u2c1c", "\\u2c1d",
    "\\u2c1e", "\\u2c1f", "\\u2c20", "\\u2c21", "\\u2c22", "\\u2c23",
    "\\u2c24", "\\u2c25", "\\u2c26", "\\u2c27", "\\u2c28", "\\u2c29",
    "\\u2c2a", "\\u2c2b", "\\u2c2c", "\\u2c2d", "\\u2c2e", "\\u2c2f",
    "\\u2c30", "\\u2c31", "\\u2c32", "\\u2c33", "\\u2c34", "\\u2c35",
    "\\u2c36", "\\u2c37", "\\u2c38", "\\u2c39", "\\u2c3a", "\\u2c3b",
    "\\u2c3c", "\\u2c3d", "\\u2c3e", "\\u2c3f", "\\u2c40", "\\u2c41",
    "\\u2c42", "\\u2c43", "\\u2c44", "\\u2c45", "\\u2c46", "\\u2c47",
    "\\u2c48", "\\u2c49", "\\u2c4a", "\\u2c4b", "\\u2c4c", "\\u2c4d",
    "\\u2c4e", "\\u2c4f", "\\u2c50", "\\u2c51", "\\u2c52", "\\u2c53",
    "\\u2c54", "\\u2c55", "\\u2c56", "\\u2c57", "\\u2c58", "\\u2c59",
    "\\u2c5a", "\\u2c5b", "\\u2c5c", "\\u2c5d", "\\u2c5e", "\\u2c5f",
    "\\u2c60", "\\u2c61", "\\u2c62", "\\u2c63", "\\u2c64", "\\u2c65",
    "\\u2c66", "\\u2c67", "\\u2c68", "\\u2c69", "\\u2c6a", "\\u2c6b",
    "\\u2c6c", "\\u2c6d", "\\u2c6e", "\\u2c6f", "\\u2c70", "\\u2c71",
    "\\u2c72", "\\u2c73", "\\u2c74", "\\u2c75", "\\u2c76", "\\u2c77",
    "\\u2c78", "\\u2c79", "\\u2c7a", "\\u2c7b", "\\u2c7e", "\\u2c7f",
    "\\u2c80", "\\u2c81", "\\u2c82", "\\u2c83", "\\u2c84", "\\u2c85",
    "\\u2c86", "\\u2c87", "\\u2c88", "\\u2c89", "\\u2c8a", "\\u2c8b",
    "\\u2c8c", "\\u2c8d", "\\u2c8e", "\\u2c8f", "\\u2c90", "\\u2c91",
    "\\u2c92", "\\u2c93", "\\u2c94", "\\u2c95", "\\u2c96", "\\u2c97",
    "\\u2c98", "\\u2c99", "\\u2c9a", "\\u2c9b", "\\u2c9c", "\\u2c9d",
    "\\u2c9e", "\\u2c9f", "\\u2ca0", "\\u2ca1", "\\u2ca2", "\\u2ca3",
    "\\u2ca4", "\\u2ca5", "\\u2ca6", "\\u2ca7", "\\u2ca8", "\\u2ca9",
    "\\u2caa", "\\u2cab", "\\u2cac", "\\u2cad", "\\u2cae", "\\u2caf",
    "\\u2cb0", "\\u2cb1", "\\u2cb2", "\\u2cb3", "\\u2cb4", "\\u2cb5",
    "\\u2cb6", "\\u2cb7", "\\u2cb8", "\\u2cb9", "\\u2cba", "\\u2cbb",
    "\\u2cbc", "\\u2cbd", "\\u2cbe", "\\u2cbf", "\\u2cc0", "\\u2cc1",
    "\\u2cc2", "\\u2cc3", "\\u2cc4", "\\u2cc5", "\\u2cc6", "\\u2cc7",
    "\\u2cc8", "\\u2cc9", "\\u2cca", "\\u2ccb", "\\u2ccc", "\\u2ccd",
    "\\u2cce", "\\u2ccf", "\\u2cd0", "\\u2cd1", "\\u2cd2", "\\u2cd3",
    "\\u2cd4", "\\u2cd5", "\\u2cd6", "\\u2cd7", "\\u2cd8", "\\u2cd9",
    "\\u2cda", "\\u2cdb", "\\u2cdc", "\\u2cdd", "\\u2cde", "\\u2cdf",
    "\\u2ce0", "\\u2ce1", "\\u2ce2", "\\u2ce3", "\\u2ce4", "\\u2ceb",
    "\\u2cec", "\\u2ced", "\\u2cee", "\\u2cf2", "\\u2cf3", "\\u2d00",
    "\\u2d01", "\\u2d02", "\\u2d03", "\\u2d04", "\\u2d05", "\\u2d06",
    "\\u2d07", "\\u2d08", "\\u2d09", "\\u2d0a", "\\u2d0b", "\\u2d0c",
    "\\u2d0d", "\\u2d0e", "\\u2d0f", "\\u2d10", "\\u2d11", "\\u2d12",
    "\\u2d13", "\\u2d14", "\\u2d15", "\\u2d16", "\\u2d17", "\\u2d18",
    "\\u2d19", "\\u2d1a", "\\u2d1b", "\\u2d1c", "\\u2d1d", "\\u2d1e",
    "\\u2d1f", "\\u2d20", "\\u2d21", "\\u2d22", "\\u2d23", "\\u2d24",
    "\\u2d25", "\\u2d27", "\\u2d2d", "\\ua640", "\\ua641", "\\ua642",
    "\\ua643", "\\ua644", "\\ua645", "\\ua646", "\\ua647", "\\ua648",
    "\\ua649", "\\ua64a", "\\ua64b", "\\ua64c", "\\ua64d", "\\ua64e",
    "\\ua64f", "\\ua650", "\\ua651", "\\ua652", "\\ua653", "\\ua654",
    "\\ua655", "\\ua656", "\\ua657", "\\ua658", "\\ua659", "\\ua65a",
    "\\ua65b", "\\ua65c", "\\ua65d", "\\ua65e", "\\ua65f", "\\ua660",
    "\\ua661", "\\ua662", "\\ua663", "\\ua664", "\\ua665", "\\ua666",
    "\\ua667", "\\ua668", "\\ua669", "\\ua66a", "\\ua66b", "\\ua66c",
    "\\ua66d", "\\ua680", "\\ua681", "\\ua682", "\\ua683", "\\ua684",
    "\\ua685", "\\ua686", "\\ua687", "\\ua688", "\\ua689", "\\ua68a",
    "\\ua68b", "\\ua68c", "\\ua68d", "\\ua68e", "\\ua68f", "\\ua690",
    "\\ua691", "\\ua692", "\\ua693", "\\ua694", "\\ua695", "\\ua696",
    "\\ua697", "\\ua698", "\\ua699", "\\ua69a", "\\ua69b", "\\ua722",
    "\\ua723", "\\ua724", "\\ua725", "\\ua726", "\\ua727", "\\ua728",
    "\\ua729", "\\ua72a", "\\ua72b", "\\ua72c", "\\ua72d", "\\ua72e",
    "\\ua72f", "\\ua730", "\\ua731", "\\ua732", "\\ua733", "\\ua734",
    "\\ua735", "\\ua736", "\\ua737", "\\ua738", "\\ua739", "\\ua73a",
    "\\ua73b", "\\ua73c", "\\ua73d", "\\ua73e", "\\ua73f", "\\ua740",
    "\\ua741", "\\ua742", "\\ua743", "\\ua744", "\\ua745", "\\ua746",
    "\\ua747", "\\ua748", "\\ua749", "\\ua74a", "\\ua74b", "\\ua74c",
    "\\ua74d", "\\ua74e", "\\ua74f", "\\ua750", "\\ua751", "\\ua752",
    "\\ua753", "\\ua754", "\\ua755", "\\ua756", "\\ua757", "\\ua758",
    "\\ua759", "\\ua75a", "\\ua75b", "\\ua75c", "\\ua75d", "\\ua75e",
    "\\ua75f", "\\ua760", "\\ua761", "\\ua762", "\\ua763", "\\ua764",
    "\\ua765", "\\ua766", "\\ua767", "\\ua768", "\\ua769", "\\ua76a",
    "\\ua76b", "\\ua76c", "\\ua76d", "\\ua76e", "\\ua76f", "\\ua771",
    "\\ua772", "\\ua773", "\\ua774", "\\ua775", "\\ua776", "\\ua777",
    "\\ua778", "\\ua779", "\\ua77a", "\\ua77b", "\\ua77c", "\\ua77d",
    "\\ua77e", "\\ua77f", "\\ua780", "\\ua781", "\\ua782", "\\ua783",
    "\\ua784", "\\ua785", "\\ua786", "\\ua787", "\\ua78b", "\\ua78c",
    "\\ua78d", "\\ua78e", "\\ua790", "\\ua791", "\\ua792", "\\ua793",
    "\\ua794", "\\ua795", "\\ua796", "\\ua797", "\\ua798", "\\ua799",
    "\\ua79a", "\\ua79b", "\\ua79c", "\\ua79d", "\\ua79e", "\\ua79f",
    "\\ua7a0", "\\ua7a1", "\\ua7a2", "\\ua7a3", "\\ua7a4", "\\ua7a5",
    "\\ua7a6", "\\ua7a7", "\\ua7a8", "\\ua7a9", "\\ua7aa", "\\ua7ab",
    "\\ua7ac", "\\ua7ad", "\\ua7ae", "\\ua7af", "\\ua7b0", "\\ua7b1",
    "\\ua7b2", "\\ua7b3", "\\ua7b4", "\\ua7b5", "\\ua7b6", "\\ua7b7",
    "\\ua7b8", "\\ua7b9", "\\ua7ba", "\\ua7bb", "\\ua7bc", "\\ua7bd",
    "\\ua7be", "\\ua7bf", "\\ua7c0", "\\ua7c1", "\\ua7c2", "\\ua7c3",
    "\\ua7c4", "\\ua7c5", "\\ua7c6", "\\ua7c7", "\\ua7c8", "\\ua7c9",
    "\\ua7ca", "\\ua7cb", "\\ua7cc", "\\ua7cd", "\\ua7ce", "\\ua7cf",
    "\\ua7d0", "\\ua7d1", "\\ua7d2", "\\ua7d3", "\\ua7d4", "\\ua7d5",
    "\\ua7d6", "\\ua7d7", "\\ua7d8", "\\ua7d9", "\\ua7da", "\\ua7db",
    "\\ua7dc", "\\ua7f5", "\\ua7f6", "\\ua7fa", "\\uab30", "\\uab31",
    "\\uab32", "\\uab33", "\\uab34", "\\uab35", "\\uab36", "\\uab37",
    "\\uab38", "\\uab39", "\\uab3a", "\\uab3b", "\\uab3c", "\\uab3d",
    "\\uab3e", "\\uab3f", "\\uab40", "\\uab41", "\\uab42", "\\uab43",
    "\\uab44", "\\uab45", "\\uab46", "\\uab47", "\\uab48", "\\uab49",
    "\\uab4a", "\\uab4b", "\\uab4c", "\\uab4d", "\\uab4e", "\\uab4f",
    "\\uab50", "\\uab51", "\\uab52", "\\uab53", "\\uab54", "\\uab55",
    "\\uab56", "\\uab57", "\\uab58", "\\uab59", "\\uab5a", "\\uab60",
    "\\uab61", "\\uab62", "\\uab63", "\\uab64", "\\uab65", "\\uab66",
    "\\uab67", "\\uab68", "\\uab70", "\\uab71", "\\uab72", "\\uab73",
    "\\uab74", "\\uab75", "\\uab76", "\\uab77", "\\uab78", "\\uab79",
    "\\uab7a", "\\uab7b", "\\uab7c", "\\uab7d", "\\uab7e", "\\uab7f",
    "\\uab80", "\\uab81", "\\uab82", "\\uab83", "\\uab84", "\\uab85",
    "\\uab86", "\\uab87", "\\uab88", "\\uab89", "\\uab8a", "\\uab8b",
    "\\uab8c", "\\uab8d", "\\uab8e", "\\uab8f", "\\uab90", "\\uab91",
    "\\uab92", "\\uab93", "\\uab94", "\\uab95", "\\uab96", "\\uab97",
    "\\uab98", "\\uab99", "\\uab9a", "\\uab9b", "\\uab9c", "\\uab9d",
    "\\uab9e", "\\uab9f", "\\uaba0", "\\uaba1", "\\uaba2", "\\uaba3",
    "\\uaba4", "\\uaba5", "\\uaba6", "\\uaba7", "\\uaba8", "\\uaba9",
    "\\uabaa", "\\uabab", "\\uabac", "\\uabad", "\\uabae", "\\uabaf",
    "\\uabb0", "\\uabb1", "\\uabb2", "\\uabb3", "\\uabb4", "\\uabb5",
    "\\uabb6", "\\uabb7", "\\uabb8", "\\uabb9", "\\uabba", "\\uabbb",
    "\\uabbc", "\\uabbd", "\\uabbe", "\\uabbf", "\\ufb00", "\\ufb01",
    "\\ufb02", "\\ufb03", "\\ufb04", "\\ufb05", "\\ufb06", "\\ufb13",
    "\\ufb14", "\\ufb15", "\\ufb16", "\\ufb17", "\\uff21", "\\uff22",
    "\\uff23", "\\uff24", "\\uff25", "\\uff26", "\\uff27", "\\uff28",
    "\\uff29", "\\uff2a", "\\uff2b", "\\uff2c", "\\uff2d", "\\uff2e",
    "\\uff2f", "\\uff30", "\\uff31", "\\uff32", "\\uff33", "\\uff34",
    "\\uff35", "\\uff36", "\\uff37", "\\uff38", "\\uff39", "\\uff3a",
    "\\uff41", "\\uff42", "\\uff43", "\\uff44", "\\uff45", "\\uff46",
    "\\uff47", "\\uff48", "\\uff49", "\\uff4a", "\\uff4b", "\\uff4c",
    "\\uff4d", "\\uff4e", "\\uff4f", "\\uff50", "\\uff51", "\\uff52",
    "\\uff53", "\\uff54", "\\uff55", "\\uff56", "\\uff57", "\\uff58",
    "\\uff59", "\\uff5a"
  }

\* the same, surrogate pairs
CasedPairs ==
  {
    <<"\\ud801", "\\udc00">>, <<"\\ud801", "\\udc01">>,
    <<"\\ud801", "\\udc02">>, <<"\\ud801", "\\udc03">>,
    <<"\\ud801", "\\udc04">>, <<"\\ud801", "\\udc05">>,
    <<"\\ud801", "\\udc06">>, <<"\\ud801", "\\udc07">>,
    <<"\\ud801", "\\udc08">>, <<"\\ud801", "\\udc09">>,
    <<"\\ud801", "\\udc0a">>, <<"\\ud801", "\\udc0b">>,
    <<"\\ud801", "\\udc0c">>, <<"\\ud801", "\\udc0d">>,
    <<"\\ud801", "\\udc0e">>, <<"\\ud801", "\\udc0f">>,
    <<"\\ud801", "\\udc10">>, <<"\\ud801", "\\udc11">>,
    <<"\\ud801", "\\udc12">>, <<"\\ud801", "\\udc13">>,
    <<"\\ud801", "\\udc14">>, <<"\\ud801", "\\udc15">>,
    <<"\\ud801", "\\udc16">>, <<"\\ud801", "\\udc17">>,
    <<"\\ud801", "\\udc18">>, <<"\\ud801", "\\udc19">>,
    <<"\\ud801", "\\udc1a">>, <<"\\ud801", "\\udc1b">>,
    <<"\\ud801", "\\udc1c">>, <<"\\ud801", "\\udc1d">>,
    <<"\\ud801", "\\udc1e">>, <<"\\ud801", "\\udc1f">>,
    <<"\\ud801", "\\udc20">>, <<"\\ud801", "\\udc21">>,
    <<"\\ud801", "\\udc22">>, <<"\\ud801", "\\udc23">>,
    <<"\\ud801", "\\udc24">>, <<"\\ud801", "\\udc25">>,
    <<"\\ud801", "\\udc26">>, <<"\\ud801", "\\udc27">>,
    <<"\\ud801", "\\udc28">>, <<"\\ud801", "\\udc29">>,
    <<"\\ud801", "\\udc2a">>, <<"\\ud801", "\\udc2b">>,
    <<"\\ud801", "\\udc2c">>, <<"\\ud801", "\\udc2d">>,
    <<"\\ud801", "\\udc2e">>, <<"\\ud801", "\\udc2f">>,
    <<"\\ud801", "\\udc30">>, <<"\\ud801", "\\udc31">>,
    <<"\\ud801", "\\udc32">>, <<"\\ud801", "\\udc33">>,
    <<"\\ud801", "\\udc34">>, <<"\\ud801", "\\udc35">>,
    <<"\\ud801", "\\udc36">>, <<"\\ud801", "\\udc37">>,
    <<"\\ud801", "\\udc38">>, <<"\\ud801", "\\udc39">>,
    <<"\\ud801", "\\udc3a">>, <<"\\ud801", "\\udc3b">>,
    <<"\\ud801", "\\udc3c">>, <<"\\ud801", "\\udc3d">>,
    <<"\\ud801", "\\udc3e">>, <<"\\ud801", "\\udc3f">>,
    <<"\\ud801", "\\udc40">>, <<"\\ud801", "\\udc41">>,
    <<"\\ud801", "\\udc42">>, <<"\\ud801", "\\udc43">>,
    <<"\\ud801", "\\udc44">>, <<"\\ud801", "\\udc45">>,
    <<"\\ud801", "\\udc46">>, <<"\\ud801", "\\udc47">>,
    <<"\\ud801", "\\udc48">>, <<"\\ud801", "\\udc49">>,
    <<"\\ud801", "\\udc4a">>, <<"\\ud801", "\\udc4b">>,
    <<"\\ud801", "\\udc4c">>, <<"\\ud801", "\\udc4d">>,
    <<"\\ud801", "\\udc4e">>, <<"\\ud801", "\\udc4f">>,
    <<"\\ud801", "\\udcb0">>, <<"\\ud801", "\\udcb1">>,
    <<"\\ud801", "\\udcb2">>, <<"\\ud801", "\\udcb3">>,
    <<"\\ud801", "\\udcb4">>, <<"\\ud801", "\\udcb5">>,
    <<"\\ud801", "\\udcb6">>, <<"\\ud801", "\\udcb7">>,
    <<"\\ud801", "\\udcb8">>, <<"\\ud801", "\\udcb9">>,
    <<"\\ud801", "\\udcba">>, <<"\\ud801", "\\udcbb">>,
    <<"\\ud801", "\\udcbc">>, <<"\\ud801", "\\udcbd">>,
    <<"\\ud801", "\\udcbe">>, <<"\\ud801", "\\udcbf">>,
    <<"\\ud801", "\\udcc0">>, <<"\\ud801", "\\udcc1">>,
    <<"\\ud801", "\\udcc2">>, <<"\\ud801", "\\udcc3">>,
    <<"\\ud801", "\\udcc4">>, <<"\\ud801", "\\udcc5">>,
    <<"\\ud801", "\\udcc6">>, <<"\\ud801", "\\udcc7">>,
    <<"\\ud801", "\\udcc8">>, <<"\\ud801", "\\udcc9">>,
    <<"\\ud801", "\\udcca">>, <<"\\ud801", "\\udccb">>,
    <<"\\ud801", "\\udccc">>, <<"\\ud801", "\\udccd">>,
    <<"\\ud801", "\\udcce">>, <<"\\ud801", "\\udccf">>,
    <<"\\ud801", "\\udcd0">>, <<"\\ud801", "\\udcd1">>,
    <<"\\ud801", "\\udcd2">>, <<"\\ud801", "\\udcd3">>,
    <<"\\ud801", "\\udcd8">>, <<"\\ud801", "\\udcd9">>,
    <<"\\ud801", "\\udcda">>, <<"\\ud801", "\\udcdb">>,
    <<"\\ud801", "\\udcdc">>, <<"\\ud801", "\\udcdd">>,
    <<"\\ud801", "\\udcde">>, <<"\\ud801", "\\udcdf">>,
    <<"\\ud801", "\\udce0">>, <<"\\ud801", "\\udce1">>,
    <<"\\ud801", "\\udce2">>, <<"\\ud801", "\\udce3">>,
    <<"\\ud801", "\\udce4">>, <<"\\ud801", "\\udce5">>,
    <<"\\ud801", "\\udce6">>, <<"\\ud801", "\\udce7">>,
    <<"\\ud801", "\\udce8">>, <<"\\ud801", "\\udce9">>,
    <<"\\ud801", "\\udcea">>, <<"\\ud801", "\\udceb">>,
    <<"\\ud801", "\\udcec">>, <<"\\ud801", "\\udced">>,
    <<"\\ud801", "\\udcee">>, <<"\\ud801", "\\udcef">>,
    <<"\\ud801", "\\udcf0">>, <<"\\ud801", "\\udcf1">>,
    <<"\\ud801", "\\udcf2">>, <<"\\ud801", "\\udcf3">>,
    <<"\\ud801", "\\udcf4">>, <<"\\ud801", "\\udcf5">>,
    <<"\\ud801", "\\udcf6">>, <<"\\ud801", "\\udcf7">>,
    <<"\\ud801", "\\udcf8">>, <<"\\ud801", "\\udcf9">>,
    <<"\\ud801", "\\udcfa">>, <<"\\ud801", "\\udcfb">>,
    <<"\\ud801", "\\udd70">>, <<"\\ud801", "\\udd71">>,
    <<"\\ud801", "\\udd72">>, <<"\\ud801", "\\udd73">>,
    <<"\\ud801", "\\udd74">>, <<"\\ud801", "\\udd75">>,
    <<"\\ud801", "\\udd76">>, <<"\\ud801", "\\udd77">>,
    <<"\\ud801", "\\udd78">>, <<"\\ud801", "\\udd79">>,
    <<"\\ud801", "\\udd7a">>, <<"\\ud801", "\\udd7c">>,
    <<"\\ud801", "\\udd7d">>, <<"\\ud801", "\\udd7e">>,
    <<"\\ud801", "\\udd7f">>, <<"\\ud801", "\\udd80">>,
    <<"\\ud801", "\\udd81">>, <<"\\ud801", "\\udd82">>,
    <<"\\ud801", "\\udd83">>, <<"\\ud801", "\\udd84">>,
    <<"\\ud801", "\\udd85">>, <<"\\ud801", "\\udd86">>,
    <<"\\ud801", "\\udd87">>, <<"\\ud801", "\\udd88">>,
    <<"\\ud801", "\\udd89">>, <<"\\ud801", "\\udd8a">>,
    <<"\\ud801", "\\udd8c">>, <<"\\ud801", "\\udd8d">>,
    <<"\\ud801", "\\udd8e">>, <<"\\ud801", "\\udd8f">>,
    <<"\\ud801", "\\udd90">>, <<"\\ud801", "\\udd91">>,
    <<"\\ud801", "\\udd92">>, <<"\\ud801", "\\udd94">>,
    <<"\\ud801", "\\udd95">>, <<"\\ud801", "\\udd97">>,
    <<"\\ud801", "\\udd98">>, <<"\\ud801", "\\udd99">>,
    <<"\\ud801", "\\udd9a">>, <<"\\ud801", "\\udd9b">>,
    <<"\\ud801", "\\udd9c">>, <<"\\ud801", "\\udd9d">>,
    <<"\\ud801", "\\udd9e">>, <<"\\ud801", "\\udd9f">>,
    <<"\\ud801", "\\udda0">>, <<"\\ud801", "\\udda1">>,
    <<"\\ud801", "\\udda3">>, <<"\\ud801", "\\udda4">>,
    <<"\\ud801", "\\udda5">>, <<"\\ud801", "\\udda6">>,
    <<"\\ud801", "\\udda7">>, <<"\\ud801", "\\udda8">>,
    <<"\\ud801", "\\udda9">>, <<"\\ud801", "\\uddaa">>,
    <<"\\ud801", "\\uddab">>, <<"\\ud801", "\\uddac">>,
    <<"\\ud801", "\\uddad">>, <<"\\ud801", "\\uddae">>,
    <<"\\ud801", "\\uddaf">>, <<"\\ud801", "\\uddb0">>,
    <<"\\ud801", "\\uddb1">>, <<"\\ud801", "\\uddb3">>,
    <<"\\ud801", "\\uddb4">>, <<"\\ud801", "\\uddb5">>,
    <<"\\ud801", "\\uddb6">>, <<"\\ud801", "\\uddb7">>,
    <<"\\ud801", "\\uddb8">>, <<"\\ud801", "\\uddb9">>,
    <<"\\ud801", "\\uddbb">>, <<"\\ud801", "\\uddbc">>,
    <<"\\ud803", "\\udc80">>, <<"\\ud803", "\\udc81">>,
    <<"\\ud803", "\\udc82">>, <<"\\ud803", "\\udc83">>,
    <<"\\ud803", "\\udc84">>, <<"\\ud803", "\\udc85">>,
    <<"\\ud803", "\\udc86">>, <<"\\ud803", "\\udc87">>,
    <<"\\ud803", "\\udc88">>, <<"\\ud803", "\\udc89">>,
    <<"\\ud803", "\\udc8a">>, <<"\\ud803", "\\udc8b">>,
    <<"\\ud803", "\\udc8c">>, <<"\\ud803", "\\udc8d">>,
    <<"\\ud803", "\\udc8e">>, <<"\\ud803", "\\udc8f">>,
    <<"\\ud803", "\\udc90">>, <<"\\ud803", "\\udc91">>,
    <<"\\ud803", "\\udc92">>, <<"\\ud803", "\\udc93">>,
    <<"\\ud803", "\\udc94">>, <<"\\ud803", "\\udc95">>,
    <<"\\ud803", "\\udc96">>, <<"\\ud803", "\\udc97">>,
    <<"\\ud803", "\\udc98">>, <<"\\ud803", "\\udc99">>,
    <<"\\ud803", "\\udc9a">>, <<"\\ud803", "\\udc9b">>,
    <<"\\ud803", "\\udc9c">>, <<"\\ud803", "\\udc9d">>,
    <<"\\ud803", "\\udc9e">>, <<"\\ud803", "\\udc9f">>,
    <<"\\ud803", "\\udca0">>, <<"\\ud803", "\\udca1">>,
    <<"\\ud803", "\\udca2">>, <<"\\ud803", "\\udca3">>,
    <<"\\ud803", "\\udca4">>, <<"\\ud803", "\\udca5">>,
    <<"\\ud803", "\\udca6">>, <<"\\ud803", "\\udca7">>,
    <<"\\ud803", "\\udca8">>, <<"\\ud803", "\\udca9">>,
    <<"\\ud803", "\\udcaa">>, <<"\\ud803", "\\udcab">>,
    <<"\\ud803", "\\udcac">>, <<"\\ud803", "\\udcad">>,
    <<"\\ud803", "\\udcae">>, <<"\\ud803", "\\udcaf">>,
    <<"\\ud803", "\\udcb0">>, <<"\\ud803", "\\udcb1">>,
    <<"\\ud803", "\\udcb2">>, <<"\\ud803", "\\udcc0">>,
    <<"\\ud803", "\\udcc1">>, <<"\\ud803", "\\udcc2">>,
    <<"\\ud803", "\\udcc3">>, <<"\\ud803", "\\udcc4">>,
    <<"\\ud803", "\\udcc5">>, <<"\\ud803", "\\udcc6">>,
    <<"\\ud803", "\\udcc7">>, <<"\\ud803", "\\udcc8">>,
    <<"\\ud803", "\\udcc9">>, <<"\\ud803", "\\udcca">>,
    <<"\\ud803", "\\udccb">>, <<"\\ud803", "\\udccc">>,
    <<"\\ud803", "\\udccd">>, <<"\\ud803", "\\udcce">>,
    <<"\\ud803", "\\udccf">>, <<"\\ud803", "\\udcd0">>,
    <<"\\ud803", "\\udcd1">>, <<"\\ud803", "\\udcd2">>,
    <<"\\ud803", "\\udcd3">>, <<"\\ud803", "\\udcd4">>,
    <<"\\ud803", "\\udcd5">>, <<"\\ud803", "\\udcd6">>,
    <<"\\ud803", "\\udcd7">>, <<"\\ud803", "\\udcd8">>,
    <<"\\ud803", "\\udcd9">>, <<"\\ud803", "\\udcda">>,
    <<"\\ud803", "\\udcdb">>, <<"\\ud803", "\\udcdc">>,
    <<"\\ud803", "\\udcdd">>, <<"\\ud803", "\\udcde">>,
    <<"\\ud803", "\\udcdf">>, <<"\\ud803", "\\udce0">>,
    <<"\\ud803", "\\udce1">>, <<"\\ud803", "\\udce2">>,
    <<"\\ud803", "\\udce3">>, <<"\\ud803", "\\udce4">>,
    <<"\\ud803", "\\udce5">>, <<"\\ud803", "\\udce6">>,
    <<"\\ud803", "\\udce7">>, <<"\\ud803", "\\udce8">>,
    <<"\\ud803", "\\udce9">>, <<"\\ud803", "\\udcea">>,
    <<"\\ud803", "\\udceb">>, <<"\\ud803", "\\udcec">>,
    <<"\\ud803", "\\udced">>, <<"\\ud803", "\\udcee">>,
    <<"\\ud803", "\\udcef">>, <<"\\ud803", "\\udcf0">>,
    <<"\\ud803", "\\udcf1">>, <<"\\ud803", "\\udcf2">>,
    <<"\\ud803", "\\udd50">>, <<"\\ud803", "\\udd51">>,
    <<"\\ud803", "\\udd52">>, <<"\\ud803", "\\udd53">>,
    <<"\\ud803", "\\udd54">>, <<"\\ud803", "\\udd55">>,
    <<"\\ud803", "\\udd56">>, <<"\\ud803", "\\udd57">>,
    <<"\\ud803", "\\udd58">>, <<"\\ud803", "\\udd59">>,
    <<"\\ud803", "\\udd5a">>, <<"\\ud803", "\\udd5b">>,
    <<"\\ud803", "\\udd5c">>, <<"\\ud803", "\\udd5d">>,
    <<"\\ud803", "\\udd5e">>, <<"\\ud803", "\\udd5f">>,
    <<"\\ud803", "\\udd60">>, <<"\\ud803", "\\udd61">>,
    <<"\\ud803", "\\udd62">>, <<"\\ud803", "\\udd63">>,
    <<"\\ud803", "\\udd64">>, <<"\\ud803", "\\udd65">>,
    <<"\\ud803", "\\udd70">>, <<"\\ud803", "\\udd71">>,
    <<"\\ud803", "\\udd72">>, <<"\\ud803", "\\udd73">>,
    <<"\\ud803", "\\udd74">>, <<"\\ud803", "\\udd75">>,
    <<"\\ud803", "\\udd76">>, <<"\\ud803", "\\udd77">>,
    <<"\\ud803", "\\udd78">>, <<"\\ud803", "\\udd79">>,
    <<"\\ud803", "\\udd7a">>, <<"\\ud803", "\\udd7b">>,
    <<"\\ud803", "\\udd7c">>, <<"\\ud803", "\\udd7d">>,
    <<"\\ud803", "\\udd7e">>, <<"\\ud803", "\\udd7f">>,
    <<"\\ud803", "\\udd80">>, <<"\\ud803", "\\udd81">>,
    <<"\\ud803", "\\udd82">>, <<"\\ud803", "\\udd83">>,
    <<"\\ud803", "\\udd84">>, <<"\\ud803", "\\udd85">>,
    <<"\\ud806", "\\udca0">>, <<"\\ud806", "\\udca1">>,
    <<"\\ud806", "\\udca2">>, <<"\\ud806", "\\udca3">>,
    <<"\\ud806", "\\udca4">>, <<"\\ud806", "\\udca5">>,
    <<"\\ud806", "\\udca6">>, <<"\\ud806", "\\udca7">>,
    <<"\\ud806", "\\udca8">>, <<"\\ud806", "\\udca9">>,
    <<"\\ud806", "\\udcaa">>, <<"\\ud806", "\\udcab">>,
    <<"\\ud806", "\\udcac">>, <<"\\ud806", "\\udcad">>,
    <<"\\ud806", "\\udcae">>, <<"\\ud806", "\\udcaf">>,
    <<"\\ud806", "\\udcb0">>, <<"\\ud806", "\\udcb1">>,
    <<"\\ud806", "\\udcb2">>, <<"\\ud806", "\\udcb3">>,
    <<"\\ud806", "\\udcb4">>, <<"\\ud806", "\\udcb5">>,
    <<"\\ud806", "\\udcb6">>, <<"\\ud806", "\\udcb7">>,
    <<"\\ud806", "\\udcb8">>, <<"\\ud806", "\\udcb9">>,
    <<"\\ud806", "\\udcba">>, <<"\\ud806", "\\udcbb">>,
    <<"\\ud806", "\\udcbc">>, <<"\\ud806", "\\udcbd">>,
    <<"\\ud806", "\\udcbe">>, <<"\\ud806", "\\udcbf">>,
    <<"\\ud806", "\\udcc0">>, <<"\\ud806", "\\udcc1">>,
    <<"\\ud806", "\\udcc2">>, <<"\\ud806", "\\udcc3">>,
    <<"\\ud806", "\\udcc4">>, <<"\\ud806", "\\udcc5">>,
    <<"\\ud806", "\\udcc6">>, <<"\\ud806", "\\udcc7">>,
    <<"\\ud806", "\\udcc8">>, <<"\\ud806", "\\udcc9">>,
    <<"\\ud806", "\\udcca">>, <<"\\ud806", "\\udccb">>,
    <<"\\ud806", "\\udccc">>, <<"\\ud806", "\\udccd">>,
    <<"\\ud806", "\\udcce">>, <<"\\ud806", "\\udccf">>,
    <<"\\ud806", "\\udcd0">>, <<"\\ud806", "\\udcd1">>,
    <<"\\ud806", "\\udcd2">>, <<"\\ud806", "\\udcd3">>,
    <<"\\ud806", "\\udcd4">>, <<"\\ud806", "\\udcd5">>,
    <<"\\ud806", "\\udcd6">>, <<"\\ud806", "\\udcd7">>,
    <<"\\ud806", "\\udcd8">>, <<"\\ud806", "\\udcd9">>,
    <<"\\ud806", "\\udcda">>, <<"\\ud806", "\\udcdb">>,
    <<"\\ud806", "\\udcdc">>, <<"\\ud806", "\\udcdd">>,
    <<"\\ud806", "\\udcde">>, <<"\\ud806", "\\udcdf">>,
    <<"\\ud81b", "\\ude40">>, <<"\\ud81b", "\\ude41">>,
    <<"\\ud81b", "\\ude42">>, <<"\\ud81b", "\\ude43">>,
    <<"\\ud81b", "\\ude44">>, <<"\\ud81b", "\\ude45">>,
    <<"\\ud81b", "\\ude46">>, <<"\\ud81b", "\\ude47">>,
    <<"\\ud81b", "\\ude48">>, <<"\\ud81b", "\\ude49">>,
    <<"\\ud81b", "\\ude4a">>, <<"\\ud81b", "\\ude4b">>,
    <<"\\ud81b", "\\ude4c">>, <<"\\ud81b", "\\ude4d">>,
    <<"\\ud81b", "\\ude4e">>, <<"\\ud81b", "\\ude4f">>,
    <<"\\ud81b", "\\ude50">>, <<"\\ud81b", "\\ude51">>,
    <<"\\ud81b", "\\ude52">>, <<"\\ud81b", "\\ude53">>,
    <<"\\ud81b", "\\ude54">>, <<"\\ud81b", "\\ude55">>,
    <<"\\ud81b", "\\ude56">>, <<"\\ud81b", "\\ude57">>,
    <<"\\ud81b", "\\ude58">>, <<"\\ud81b", "\\ude59">>,
    <<"\\ud81b", "\\ude5a">>, <<"\\ud81b", "\\ude5b">>,
    <<"\\ud81b", "\\ude5c">>, <<"\\ud81b", "\\ude5d">>,
    <<"\\ud81b", "\\ude5e">>, <<"\\ud81b", "\\ude5f">>,
    <<"\\ud81b", "\\ude60">>, <<"\\ud81b", "\\ude61">>,
    <<"\\ud81b", "\\ude62">>, <<"\\ud81b", "\\ude63">>,
    <<"\\ud81b", "\\ude64">>, <<"\\ud81b", "\\ude65">>,
    <<"\\ud81b", "\\ude66">>, <<"\\ud81b", "\\ude67">>,
    <<"\\ud81b", "\\ude68">>, <<"\\ud81b", "\\ude69">>,
    <<"\\ud81b", "\\ude6a">>, <<"\\ud81b", "\\ude6b">>,
    <<"\\ud81b", "\\ude6c">>, <<"\\ud81b", "\\ude6d">>,
    <<"\\ud81b", "\\ude6e">>, <<"\\ud81b", "\\ude6f">>,
    <<"\\ud81b", "\\ude70">>, <<"\\ud81b", "\\ude71">>,
    <<"\\ud81b", "\\ude72">>, <<"\\ud81b", "\\ude73">>,
    <<"\\ud81b", "\\ude74">>, <<"\\ud81b", "\\ude75">>,
    <<"\\ud81b", "\\ude76">>, <<"\\ud81b", "\\ude77">>,
    <<"\\ud81b", "\\ude78">>, <<"\\ud81b", "\\ude79">>,
    <<"\\ud81b", "\\ude7a">>, <<"\\ud81b", "\\ude7b">>,
    <<"\\ud81b", "\\ude7c">>, <<"\\ud81b", "\\ude7d">>,
    <<"\\ud81b", "\\ude7e">>, <<"\\ud81b", "\\ude7f">>,
    <<"\\ud81b", "\\udea0">>, <<"\\ud81b", "\\udea1">>,
    <<"\\ud81b", "\\udea2">>, <<"\\ud81b", "\\udea3">>,
    <<"\\ud81b", "\\udea4">>, <<"\\ud81b", "\\udea5">>,
    <<"\\ud81b", "\\udea6">>, <<"\\ud81b", "\\udea7">>,
    <<"\\ud81b", "\\udea8">>, <<"\\ud81b", "\\udea9">>,
    <<"\\ud81b", "\\udeaa">>, <<"\\ud81b", "\\udeab">>,
    <<"\\ud81b", "\\udeac">>, <<"\\ud81b", "\\udead">>,
    <<"\\ud81b", "\\udeae">>, <<"\\ud81b", "\\udeaf">>,
    <<"\\ud81b", "\\udeb0">>, <<"\\ud81b", "\\udeb1">>,
    <<"\\ud81b", "\\udeb2">>, <<"\\ud81b", "\\udeb3">>,
    <<"\\ud81b", "\\udeb4">>, <<"\\ud81b", "\\udeb5">>,
    <<"\\ud81b", "\\udeb6">>, <<"\\ud81b", "\\udeb7">>,
    <<"\\ud81b", "\\udeb8">>, <<"\\ud81b", "\\udebb">>,
    <<"\\ud81b", "\\udebc">>, <<"\\ud81b", "\\udebd">>,
    <<"\\ud81b", "\\udebe">>, <<"\\ud81b", "\\udebf">>,
    <<"\\ud81b", "\\udec0">>, <<"\\ud81b", "\\udec1">>,
    <<"\\ud81b", "\\udec2">>, <<"\\ud81b", "\\udec3">>,
    <<"\\ud81b", "\\udec4">>, <<"\\ud81b", "\\udec5">>,
    <<"\\ud81b", "\\udec6">>, <<"\\ud81b", "\\udec7">>,
    <<"\\ud81b", "\\udec8">>, <<"\\ud81b", "\\udec9">>,
    <<"\\ud81b", "\\udeca">>, <<"\\ud81b", "\\udecb">>,
    <<"\\ud81b", "\\udecc">>, <<"\\ud81b", "\\udecd">>,
    <<"\\ud81b", "\\udece">>, <<"\\ud81b", "\\udecf">>,
    <<"\\ud81b", "\\uded0">>, <<"\\ud81b", "\\uded1">>,
    <<"\\ud81b", "\\uded2">>, <<"\\ud81b", "\\uded3">>,
    <<"\\ud835", "\\udc00">>, <<"\\ud835", "\\udc01">>,
    <<"\\ud835", "\\udc02">>, <<"\\ud835", "\\udc03">>,
    <<"\\ud835", "\\udc04">>, <<"\\ud835", "\\udc05">>,
    <<"\\ud835", "\\udc06">>, <<"\\ud835", "\\udc07">>,
    <<"\\ud835", "\\udc08">>, <<"\\ud835", "\\udc09">>,
    <<"\\ud835", "\\udc0a">>, <<"\\ud835", "\\udc0b">>,
    <<"\\ud835", "\\udc0c">>, <<"\\ud835", "\\udc0d">>,
    <<"\\ud835", "\\udc0e">>, <<"\\ud835", "\\udc0f">>,
    <<"\\ud835", "\\udc10">>, <<"\\ud835", "\\udc11">>,
    <<"\\ud835", "\\udc12">>, <<"\\ud835", "\\udc13">>,
    <<"\\ud835", "\\udc14">>, <<"\\ud835", "\\udc15">>,
    <<"\\ud835", "\\udc16">>, <<"\\ud835", "\\udc17">>,
    <<"\\ud835", "\\udc18">>, <<"\\ud835", "\\udc19">>,
    <<"\\ud835", "\\udc1a">>, <<"\\ud835", "\\udc1b">>,
    <<"\\ud835", "\\udc1c">>, <<"\\ud835", "\\udc1d">>,
    <<"\\ud835", "\\udc1e">>, <<"\\ud835", "\\udc1f">>,
    <<"\\ud835", "\\udc20">>, <<"\\ud835", "\\udc21">>,
    <<"\\ud835", "\\udc22">>, <<"\\ud835", "\\udc23">>,
    <<"\\ud835", "\\udc24">>, <<"\\ud835", "\\udc25">>,
    <<"\\ud835", "\\udc26">>, <<"\\ud835", "\\udc27">>,
    <<"\\ud835", "\\udc28">>, <<"\\ud835", "\\udc29">>,
    <<"\\ud835", "\\udc2a">>, <<"\\ud835", "\\udc2b">>,
    <<"\\ud835", "\\udc2c">>, <<"\\ud835", "\\udc2d">>,
    <<"\\ud835", "\\udc2e">>, <<"\\ud835", "\\udc2f">>,
    <<"\\ud835", "\\udc30">>, <<"\\ud835", "\\udc31">>,
    <<"\\ud835", "\\udc32">>, <<"\\ud835", "\\udc33">>,
    <<"\\ud835", "\\udc34">>, <<"\\ud835", "\\udc35">>,
    <<"\\ud835", "\\udc36">>, <<"\\ud835", "\\udc37">>,
    <<"\\ud835", "\\udc38">>, <<"\\ud835", "\\udc39">>,
    <<"\\ud835", "\\udc3a">>, <<"\\ud835", "\\udc3b">>,
    <<"\\ud835", "\\udc3c">>, <<"\\ud835", "\\udc3d">>,
    <<"\\ud835", "\\udc3e">>, <<"\\ud835", "\\udc3f">>,
    <<"\\ud835", "\\udc40">>, <<"\\ud835", "\\udc41">>,
    <<"\\ud835", "\\udc42">>, <<"\\ud835", "\\udc43">>,
    <<"\\ud835", "\\udc44">>, <<"\\ud835", "\\udc45">>,
    <<"\\ud835", "\\udc46">>, <<"\\ud835", "\\udc47">>,
    <<"\\ud835", "\\udc48">>, <<"\\ud835", "\\udc49">>,
    <<"\\ud835", "\\udc4a">>, <<"\\ud835", "\\udc4b">>,
    <<"\\ud835", "\\udc4c">>, <<"\\ud835", "\\udc4d">>,
    <<"\\ud835", "\\udc4e">>, <<"\\ud835", "\\udc4f">>,
    <<"\\ud835", "\\udc50">>, <<"\\ud835", "\\udc51">>,
    <<"\\ud835", "\\udc52">>, <<"\\ud835", "\\udc53">>,
    <<"\\ud835", "\\udc54">>, <<"\\ud835", "\\udc56">>,
    <<"\\ud835", "\\udc57">>, <<"\\ud835", "\\udc58">>,
    <<"\\ud835", "\\udc59">>, <<"\\ud835", "\\udc5a">>,
    <<"\\ud835", "\\udc5b">>, <<"\\ud835", "\\udc5c">>,
    <<"\\ud835", "\\udc5d">>, <<"\\ud835", "\\udc5e">>,
    <<"\\ud835", "\\udc5f">>, <<"\\ud835", "\\udc60">>,
    <<"\\ud835", "\\udc61">>, <<"\\ud835", "\\udc62">>,
    <<"\\ud835", "\\udc63">>, <<"\\ud835", "\\udc64">>,
    <<"\\ud835", "\\udc65">>, <<"\\ud835", "\\udc66">>,
    <<"\\ud835", "\\udc67">>, <<"\\ud835", "\\udc68">>,
    <<"\\ud835", "\\udc69">>, <<"\\ud835", "\\udc6a">>,
    <<"\\ud835", "\\udc6b">>, <<"\\ud835", "\\udc6c">>,
    <<"\\ud835", "\\udc6d">>, <<"\\ud835", "\\udc6e">>,
    <<"\\ud835", "\\udc6f">>, <<"\\ud835", "\\udc70">>,
    <<"\\ud835", "\\udc71">>, <<"\\ud835", "\\udc72">>,
    <<"\\ud835", "\\udc73">>, <<"\\ud835", "\\udc74">>,
    <<"\\ud835", "\\udc75">>, <<"\\ud835", "\\udc76">>,
    <<"\\ud835", "\\udc77">>, <<"\\ud835", "\\udc78">>,
    <<"\\ud835", "\\udc79">>, <<"\\ud835", "\\udc7a">>,
    <<"\\ud835", "\\udc7b">>, <<"\\ud835", "\\udc7c">>,
    <<"\\ud835", "\\udc7d">>, <<"\\ud835", "\\udc7e">>,
    <<"\\ud835", "\\udc7f">>, <<"\\ud835", "\\udc80">>,
    <<"\\ud835", "\\udc81">>, <<"\\ud835", "\\udc82">>,
    <<"\\ud835", "\\udc83">>, <<"\\ud835", "\\udc84">>,
    <<"\\ud835", "\\udc85">>, <<"\\ud835", "\\udc86">>,
    <<"\\ud835", "\\udc87">>, <<"\\ud835", "\\udc88">>,
    <<"\\ud835", "\\udc89">>, <<"\\ud835", "\\udc8a">>,
    <<"\\ud835", "\\udc8b">>, <<"\\ud835", "\\udc8c">>,
    <<"\\ud835", "\\udc8d">>, <<"\\ud835", "\\udc8e">>,
    <<"\\ud835", "\\udc8f">>, <<"\\ud835", "\\udc90">>,
    <<"\\ud835", "\\udc91">>, <<"\\ud835", "\\udc92">>,
    <<"\\ud835", "\\udc93">>, <<"\\ud835", "\\udc94">>,
    <<"\\ud835", "\\udc95">>, <<"\\ud835", "\\udc96">>,
    <<"\\ud835", "\\udc97">>, <<"\\ud835", "\\udc98">>,
    <<"\\ud835", "\\udc99">>, <<"\\ud835", "\\udc9a">>,
    <<"\\ud835", "\\udc9b">>, <<"\\ud835", "\\udc9c">>,
    <<"\\ud835", "\\udc9e">>, <<"\\ud835", "\\udc9f">>,
    <<"\\ud835", "\\udca2">>, <<"\\ud835", "\\udca5">>,
    <<"\\ud835", "\\udca6">>, <<"\\ud835", "\\udca9">>,
    <<"\\ud835", "\\udcaa">>, <<"\\ud835", "\\udcab">>,
    <<"\\ud835", "\\udcac">>, <<"\\ud835", "\\udcae">>,
    <<"\\ud835", "\\udcaf">>, <<"\\ud835", "\\udcb0">>,
    <<"\\ud835", "\\udcb1">>, <<"\\ud835", "\\udcb2">>,
    <<"\\ud835", "\\udcb3">>, <<"\\ud835", "\\udcb4">>,
    <<"\\ud835", "\\udcb5">>, <<"\\ud835", "\\udcb6">>,
    <<"\\ud835", "\\udcb7">>, <<"\\ud835", "\\udcb8">>,
    <<"\\ud835", "\\udcb9">>, <<"\\ud835", "\\udcbb">>,
    <<"\\ud835", "\\udcbd">>, <<"\\ud835", "\\udcbe">>,
    <<"\\ud835", "\\udcbf">>, <<"\\ud835", "\\udcc0">>,
    <<"\\ud835", "\\udcc1">>, <<"\\ud835", "\\udcc2">>,
    <<"\\ud835", "\\udcc3">>, <<"\\ud835", "\\udcc5">>,
    <<"\\ud835", "\\udcc6">>, <<"\\ud835", "\\udcc7">>,
    <<"\\ud835", "\\udcc8">>, <<"\\ud835", "\\udcc9">>,
    <<"\\ud835", "\\udcca">>, <<"\\ud835", "\\udccb">>,
    <<"\\ud835", "\\udccc">>, <<"\\ud835", "\\udccd">>,
    <<"\\ud835", "\\udcce">>, <<"\\ud835", "\\udccf">>,
    <<"\\ud835", "\\udcd0">>, <<"\\ud835", "\\udcd1">>,
    <<"\\ud835", "\\udcd2">>, <<"\\ud835", "\\udcd3">>,
    <<"\\ud835", "\\udcd4">>, <<"\\ud835", "\\udcd5">>,
    <<"\\ud835", "\\udcd6">>, <<"\\ud835", "\\udcd7">>,
    <<"\\ud835", "\\udcd8">>, <<"\\ud835", "\\udcd9">>,
    <<"\\ud835", "\\udcda">>, <<"\\ud835", "\\udcdb">>,
    <<"\\ud835", "\\udcdc">>, <<"\\ud835", "\\udcdd">>,
    <<"\\ud835", "\\udcde">>, <<"\\ud835", "\\udcdf">>,
    <<"\\ud835", "\\udce0">>, <<"\\ud835", "\\udce1">>,
    <<"\\ud835", "\\udce2">>, <<"\\ud835", "\\udce3">>,
    <<"\\ud835", "\\udce4">>, <<"\\ud835", "\\udce5">>,
    <<"\\ud835", "\\udce6">>, <<"\\ud835", "\\udce7">>,
    <<"\\ud835", "\\udce8">>, <<"\\ud835", "\\udce9">>,
    <<"\\ud835", "\\udcea">>, <<"\\ud835", "\\udceb">>,
    <<"\\ud835", "\\udcec">>, <<"\\ud835", "\\udced">>,
    <<"\\ud835", "\\udcee">>, <<"\\ud835", "\\udcef">>,
    <<"\\ud835", "\\udcf0">>, <<"\\ud835", "\\udcf1">>,
    <<"\\ud835", "\\udcf2">>, <<"\\ud835", "\\udcf3">>,
    <<"\\ud835", "\\udcf4">>, <<"\\ud835", "\\udcf5">>,
    <<"\\ud835", "\\udcf6">>, <<"\\ud835", "\\udcf7">>,
    <<"\\ud835", "\\udcf8">>, <<"\\ud835", "\\udcf9">>,
    <<"\\ud835", "\\udcfa">>, <<"\\ud835", "\\udcfb">>,
    <<"\\ud835", "\\udcfc">>, <<"\\ud835", "\\udcfd">>,
    <<"\\ud835", "\\udcfe">>, <<"\\ud835", "\\udcff">>,
    <<"\\ud835", "\\udd00">>, <<"\\ud835", "\\udd01">>,
    <<"\\ud835", "\\udd02">>, <<"\\ud835", "\\udd03">>,
    <<"\\ud835", "\\udd04">>, <<"\\ud835", "\\udd05">>,
    <<"\\ud835", "\\udd07">>, <<"\\ud835", "\\udd08">>,
    <<"\\ud835", "\\udd09">>, <<"\\ud835", "\\udd0a">>,
    <<"\\ud835", "\\udd0d">>, <<"\\ud835", "\\udd0e">>,
    <<"\\ud835", "\\udd0f">>, <<"\\ud835", "\\udd10">>,
    <<"\\ud835", "\\udd11">>, <<"\\ud835", "\\udd12">>,
    <<"\\ud835", "\\udd13">>, <<"\\ud835", "\\udd14">>,
    <<"\\ud835", "\\udd16">>, <<"\\ud835", "\\udd17">>,
    <<"\\ud835", "\\udd18">>, <<"\\ud835", "\\udd19">>,
    <<"\\ud835", "\\udd1a">>, <<"\\ud835", "\\udd1b">>,
    <<"\\ud835", "\\udd1c">>, <<"\\ud835", "\\udd1e">>,
    <<"\\ud835", "\\udd1f">>, <<"\\ud835", "\\udd20">>,
    <<"\\ud835", "\\udd21">>, <<"\\ud835", "\\udd22">>,
    <<"\\ud835", "\\udd23">>, <<"\\ud835", "\\udd24">>,
    <<"\\ud835", "\\udd25">>, <<"\\ud835", "\\udd26">>,
    <<"\\ud835", "\\udd27">>, <<"\\ud835", "\\udd28">>,
    <<"\\ud835", "\\udd29">>, <<"\\ud835", "\\udd2a">>,
    <<"\\ud835", "\\udd2b">>, <<"\\ud835", "\\udd2c">>,
    <<"\\ud835", "\\udd2d">>, <<"\\ud835", "\\udd2e">>,
    <<"\\ud835", "\\udd2f">>, <<"\\ud835", "\\udd30">>,
    <<"\\ud835", "\\udd31">>, <<"\\ud835", "\\udd32">>,
    <<"\\ud835", "\\udd33">>, <<"\\ud835", "\\udd34">>,
    <<"\\ud835", "\\udd35">>, <<"\\ud835", "\\udd36">>,
    <<"\\ud835", "\\udd37">>, <<"\\ud835", "\\udd38">>,
    <<"\\ud835", "\\udd39">>, <<"\\ud835", "\\udd3b">>,
    <<"\\ud835", "\\udd3c">>, <<"\\ud835", "\\udd3d">>,
    <<"\\ud835", "\\udd3e">>, <<"\\ud835", "\\udd40">>,
    <<"\\ud835", "\\udd41">>, <<"\\ud835", "\\udd42">>,
    <<"\\ud835", "\\udd43">>, <<"\\ud835", "\\udd44">>,
    <<"\\ud835", "\\udd46">>, <<"\\ud835", "\\udd4a">>,
    <<"\\ud835", "\\udd4b">>, <<"\\ud835", "\\udd4c">>,
    <<"\\ud835", "\\udd4d">>, <<"\\ud835", "\\udd4e">>,
    <<"\\ud835", "\\udd4f">>, <<"\\ud835", "\\udd50">>,
    <<"\\ud835", "\\udd52">>, <<"\\ud835", "\\udd53">>,
    <<"\\ud835", "\\udd54">>, <<"\\ud835", "\\udd55">>,
    <<"\\ud835", "\\udd56">>, <<"\\ud835", "\\udd57">>,
    <<"\\ud835", "\\udd58">>, <<"\\ud835", "\\udd59">>,
    <<"\\ud835", "\\udd5a">>, <<"\\ud835", "\\udd5b">>,
    <<"\\ud835", "\\udd5c">>, <<"\\ud835", "\\udd5d">>,
    <<"\\ud835", "\\udd5e">>, <<"\\ud835", "\\udd5f">>,
    <<"\\ud835", "\\udd60">>, <<"\\ud835", "\\udd61">>,
    <<"\\ud835", "\\udd62">>, <<"\\ud835", "\\udd63">>,
    <<"\\ud835", "\\udd64">>, <<"\\ud835", "\\udd65">>,
    <<"\\ud835", "\\udd66">>, <<"\\ud835", "\\udd67">>,
    <<"\\ud835", "\\udd68">>, <<"\\ud835", "\\udd69">>,
    <<"\\ud835", "\\udd6a">>, <<"\\ud835", "\\udd6b">>,
    <<"\\ud835", "\\udd6c">>, <<"\\ud835", "\\udd6d">>,
    <<"\\ud835", "\\udd6e">>, <<"\\ud835", "\\udd6f">>,
    <<"\\ud835", "\\udd70">>, <<"\\ud835", "\\udd71">>,
    <<"\\ud835", "\\udd72">>, <<"\\ud835", "\\udd73">>,
    <<"\\ud835", "\\udd74">>, <<"\\ud835", "\\udd75">>,
    <<"\\ud835", "\\udd76">>, <<"\\ud835", "\\udd77">>,
    <<"\\ud835", "\\udd78">>, <<"\\ud835", "\\udd79">>,
    <<"\\ud835", "\\udd7a">>, <<"\\ud835", "\\udd7b">>,
    <<"\\ud835", "\\udd7c">>, <<"\\ud835", "\\udd7d">>,
    <<"\\ud835", "\\udd7e">>, <<"\\ud835", "\\udd7f">>,
    <<"\\ud835", "\\udd80">>, <<"\\ud835", "\\udd81">>,
    <<"\\ud835", "\\udd82">>, <<"\\ud835", "\\udd83">>,
    <<"\\ud835", "\\udd84">>, <<"\\ud835", "\\udd85">>,
    <<"\\ud835", "\\udd86">>, <<"\\ud835", "\\udd87">>,
    <<"\\ud835", "\\udd88">>, <<"\\ud835", "\\udd89">>,
    <<"\\ud835", "\\udd8a">>, <<"\\ud835", "\\udd8b">>,
    <<"\\ud835", "\\udd8c">>, <<"\\ud835", "\\udd8d">>,
    <<"\\ud835", "\\udd8e">>, <<"\\ud835", "\\udd8f">>,
    <<"\\ud835", "\\udd90">>, <<"\\ud835", "\\udd91">>,
    <<"\\ud835", "\\udd92">>, <<"\\ud835", "\\udd93">>,
    <<"\\ud835", "\\udd94">>, <<"\\ud835", "\\udd95">>,
    <<"\\ud835", "\\udd96">>, <<"\\ud835", "\\udd97">>,
    <<"\\ud835", "\\udd98">>, <<"\\ud835", "\\udd99">>,
    <<"\\ud835", "\\udd9a">>, <<"\\ud835", "\\udd9b">>,
    <<"\\ud835", "\\udd9c">>, <<"\\ud835", "\\udd9d">>,
    <<"\\ud835", "\\udd9e">>, <<"\\ud835", "\\udd9f">>,
    <<"\\ud835", "\\udda0">>, <<"\\ud835", "\\udda1">>,
    <<"\\ud835", "\\udda2">>, <<"\\ud835", "\\udda3">>,
    <<"\\ud835", "\\udda4">>, <<"\\ud835", "\\udda5">>,
    <<"\\ud835", "\\udda6">>, <<"\\ud835", "\\udda7">>,
    <<"\\ud835", "\\udda8">>, <<"\\ud835", "\\udda9">>,
    <<"\\ud835", "\\uddaa">>, <<"\\ud835", "\\uddab">>,
    <<"\\ud835", "\\uddac">>, <<"\\ud835", "\\uddad">>,
    <<"\\ud835", "\\uddae">>, <<"\\ud835", "\\uddaf">>,
    <<"\\ud835", "\\uddb0">>, <<"\\ud835", "\\uddb1">>,
    <<"\\ud835", "\\uddb2">>, <<"\\ud835", "\\uddb3">>,
    <<"\\ud835", "\\uddb4">>, <<"\\ud835", "\\uddb5">>,
    <<"\\ud835", "\\uddb6">>, <<"\\ud835", "\\uddb7">>,
    <<"\\ud835", "\\uddb8">>, <<"\\ud835", "\\uddb9">>,
    <<"\\ud835", "\\uddba">>, <<"\\ud835", "\\uddbb">>,
    <<"\\ud835", "\\uddbc">>, <<"\\ud835", "\\uddbd">>,
    <<"\\ud835", "\\uddbe">>, <<"\\ud835", "\\uddbf">>,
    <<"\\ud835", "\\uddc0">>, <<"\\ud835", "\\uddc1">>,
    <<"\\ud835", "\\uddc2">>, <<"\\ud835", "\\uddc3">>,
    <<"\\ud835", "\\uddc4">>, <<"\\ud835", "\\uddc5">>,
    <<"\\ud835", "\\uddc6">>, <<"\\ud835", "\\uddc7">>,
    <<"\\ud835", "\\uddc8">>, <<"\\ud835", "\\uddc9">>,
    <<"\\ud835", "\\uddca">>, <<"\\ud835", "\\uddcb">>,
    <<"\\ud835", "\\uddcc">>, <<"\\ud835", "\\uddcd">>,
    <<"\\ud835", "\\uddce">>, <<"\\ud835", "\\uddcf">>,
    <<"\\ud835", "\\uddd0">>, <<"\\ud835", "\\uddd1">>,
    <<"\\ud835", "\\uddd2">>, <<"\\ud835", "\\uddd3">>,
    <<"\\ud835", "\\uddd4">>, <<"\\ud835", "\\uddd5">>,
    <<"\\ud835", "\\uddd6">>, <<"\\ud835", "\\uddd7">>,
    <<"\\ud835", "\\uddd8">>, <<"\\ud835", "\\uddd9">>,
    <<"\\ud835", "\\uddda">>, <<"\\ud835", "\\udddb">>,
    <<"\\ud835", "\\udddc">>, <<"\\ud835", "\\udddd">>,
    <<"\\ud835", "\\uddde">>, <<"\\ud835", "\\udddf">>,
    <<"\\ud835", "\\udde0">>, <<"\\ud835", "\\udde1">>,
    <<"\\ud835", "\\udde2">>, <<"\\ud835", "\\udde3">>,
    <<"\\ud835", "\\udde4">>, <<"\\ud835", "\\udde5">>,
    <<"\\ud835", "\\udde6">>, <<"\\ud835", "\\udde7">>,
    <<"\\ud835", "\\udde8">>, <<"\\ud835", "\\udde9">>,
    <<"\\ud835", "\\uddea">>, <<"\\ud835", "\\uddeb">>,
    <<"\\ud835", "\\uddec">>, <<"\\ud835", "\\udded">>,
    <<"\\ud835", "\\uddee">>, <<"\\ud835", "\\uddef">>,
    <<"\\ud835", "\\uddf0">>, <<"\\ud835", "\\uddf1">>,
    <<"\\ud835", "\\uddf2">>, <<"\\ud835", "\\uddf3">>,
    <<"\\ud835", "\\uddf4">>, <<"\\ud835", "\\uddf5">>,
    <<"\\ud835", "\\uddf6">>, <<"\\ud835", "\\uddf7">>,
    <<"\\ud835", "\\uddf8">>, <<"\\ud835", "\\uddf9">>,
    <<"\\ud835", "\\uddfa">>, <<"\\ud835", "\\uddfb">>,
    <<"\\ud835", "\\uddfc">>, <<"\\ud835", "\\uddfd">>,
    <<"\\ud835", "\\uddfe">>, <<"\\ud835", "\\uddff">>,
    <<"\\ud835", "\\ude00">>, <<"\\ud835", "\\ude01">>,
    <<"\\ud835", "\\ude02">>, <<"\\ud835", "\\ude03">>,
    <<"\\ud835", "\\ude04">>, <<"\\ud835", "\\ude05">>,
    <<"\\ud835", "\\ude06">>, <<"\\ud835", "\\ude07">>,
    <<"\\ud835", "\\ude08">>, <<"\\ud835", "\\ude09">>,
    <<"\\ud835", "\\ude0a">>, <<"\\ud835", "\\ude0b">>,
    <<"\\ud835", "\\ude0c">>, <<"\\ud835", "\\ude0d">>,
    <<"\\ud835", "\\ude0e">>, <<"\\ud835", "\\ude0f">>,
    <<"\\ud835", "\\ude10">>, <<"\\ud835", "\\ude11">>,
    <<"\\ud835", "\\ude12">>, <<"\\ud835", "\\ude13">>,
    <<"\\ud835", "\\ude14">>, <<"\\ud835", "\\ude15">>,
    <<"\\ud835", "\\ude16">>, <<"\\ud835", "\\ude17">>,
    <<"\\ud835", "\\ude18">>, <<"\\ud835", "\\ude19">>,
    <<"\\ud835", "\\ude1a">>, <<"\\ud835", "\\ude1b">>,
    <<"\\ud835", "\\ude1c">>, <<"\\ud835", "\\ude1d">>,
    <<"\\ud835", "\\ude1e">>, <<"\\ud835", "\\ude1f">>,
    <<"\\ud835", "\\ude20">>, <<"\\ud835", "\\ude21">>,
    <<"\\ud835", "\\ude22">>, <<"\\ud835", "\\ude23">>,
    <<"\\ud835", "\\ude24">>, <<"\\ud835", "\\ude25">>,
    <<"\\ud835", "\\ude26">>, <<"\\ud835", "\\ude27">>,
    <<"\\ud835", "\\ude28">>, <<"\\ud835", "\\ude29">>,
    <<"\\ud835", "\\ude2a">>, <<"\\ud835", "\\ude2b">>,
    <<"\\ud835", "\\ude2c">>, <<"\\ud835", "\\ude2d">>,
    <<"\\ud835", "\\ude2e">>, <<"\\ud835", "\\ude2f">>,
    <<"\\ud835", "\\ude30">>, <<"\\ud835", "\\ude31">>,
    <<"\\ud835", "\\ude32">>, <<"\\ud835", "\\ude33">>,
    <<"\\ud835", "\\ude34">>, <<"\\ud835", "\\ude35">>,
    <<"\\ud835", "\\ude36">>, <<"\\ud835", "\\ude37">>,
    <<"\\ud835", "\\ude38">>, <<"\\ud835", "\\ude39">>,
    <<"\\ud835", "\\ude3a">>, <<"\\ud835", "\\ude3b">>,
    <<"\\ud835", "\\ude3c">>, <<"\\ud835", "\\ude3d">>,
    <<"\\ud835", "\\ude3e">>, <<"\\ud835", "\\ude3f">>,
    <<"\\ud835", "\\ude40">>, <<"\\ud835", "\\ude41">>,
    <<"\\ud835", "\\ude42">>, <<"\\ud835", "\\ude43">>,
    <<"\\ud835", "\\ude44">>, <<"\\ud835", "\\ude45">>,
    <<"\\ud835", "\\ude46">>, <<"\\ud835", "\\ude47">>,
    <<"\\ud835", "\\ude48">>, <<"\\ud835", "\\ude49">>,
    <<"\\ud835", "\\ude4a">>, <<"\\ud835", "\\ude4b">>,
    <<"\\ud835", "\\ude4c">>, <<"\\ud835", "\\ude4d">>,
    <<"\\ud835", "\\ude4e">>, <<"\\ud835", "\\ude4f">>,
    <<"\\ud835", "\\ude50">>, <<"\\ud835", "\\ude51">>,
    <<"\\ud835", "\\ude52">>, <<"\\ud835", "\\ude53">>,
    <<"\\ud835", "\\ude54">>, <<"\\ud835", "\\ude55">>,
    <<"\\ud835", "\\ude56">>, <<"\\ud835", "\\ude57">>,
    <<"\\ud835", "\\ude58">>, <<"\\ud835", "\\ude59">>,
    <<"\\ud835", "\\ude5a">>, <<"\\ud835", "\\ude5b">>,
    <<"\\ud835", "\\ude5c">>, <<"\\ud835", "\\ude5d">>,
    <<"\\ud835", "\\ude5e">>, <<"\\ud835", "\\ude5f">>,
    <<"\\ud835", "\\ude60">>, <<"\\ud835", "\\ude61">>,
    <<"\\ud835", "\\ude62">>, <<"\\ud835", "\\ude63">>,
    <<"\\ud835", "\\ude64">>, <<"\\ud835", "\\ude65">>,
    <<"\\ud835", "\\ude66">>, <<"\\ud835", "\\ude67">>,
    <<"\\ud835", "\\ude68">>, <<"\\ud835", "\\ude69">>,
    <<"\\ud835", "\\ude6a">>, <<"\\ud835", "\\ude6b">>,
    <<"\\ud835", "\\ude6c">>, <<"\\ud835", "\\ude6d">>,
    <<"\\ud835", "\\ude6e">>, <<"\\ud835", "\\ude6f">>,
    <<"\\ud835", "\\ude70">>, <<"\\ud835", "\\ude71">>,
    <<"\\ud835", "\\ude72">>, <<"\\ud835", "\\ude73">>,
    <<"\\ud835", "\\ude74">>, <<"\\ud835", "\\ude75">>,
    <<"\\ud835", "\\ude76">>, <<"\\ud835", "\\ude77">>,
    <<"\\ud835", "\\ude78">>, <<"\\ud835", "\\ude79">>,
    <<"\\ud835", "\\ude7a">>, <<"\\ud835", "\\ude7b">>,
    <<"\\ud835", "\\ude7c">>, <<"\\ud835", "\\ude7d">>,
    <<"\\ud835", "\\ude7e">>, <<"\\ud835", "\\ude7f">>,
    <<"\\ud835", "\\ude80">>, <<"\\ud835", "\\ude81">>,
    <<"\\ud835", "\\ude82">>, <<"\\ud835", "\\ude83">>,
    <<"\\ud835", "\\ude84">>, <<"\\ud835", "\\ude85">>,
    <<"\\ud835", "\\ude86">>, <<"\\ud835", "\\ude87">>,
    <<"\\ud835", "\\ude88">>, <<"\\ud835", "\\ude89">>,
    <<"\\ud835", "\\ude8a">>, <<"\\ud835", "\\ude8b">>,
    <<"\\ud835", "\\ude8c">>, <<"\\ud835", "\\ude8d">>,
    <<"\\ud835", "\\ude8e">>, <<"\\ud835", "\\ude8f">>,
    <<"\\ud835", "\\ude90">>, <<"\\ud835", "\\ude91">>,
    <<"\\ud835", "\\ude92">>, <<"\\ud835", "\\ude93">>,
    <<"\\ud835", "\\ude94">>, <<"\\ud835", "\\ude95">>,
    <<"\\ud835", "\\ude96">>, <<"\\ud835", "\\ude97">>,
    <<"\\ud835", "\\ude98">>, <<"\\ud835", "\\ude99">>,
    <<"\\ud835", "\\ude9a">>, <<"\\ud835", "\\ude9b">>,
    <<"\\ud835", "\\ude9c">>, <<"\\ud835", "\\ude9d">>,
    <<"\\ud835", "\\ude9e">>, <<"\\ud835", "\\ude9f">>,
    <<"\\ud835", "\\udea0">>, <<"\\ud835", "\\udea1">>,
    <<"\\ud835", "\\udea2">>, <<"\\ud835", "\\udea3">>,
    <<"\\ud835", "\\udea4">>, <<"\\ud835", "\\udea5">>,
    <<"\\ud835", "\\udea8">>, <<"\\ud835", "\\udea9">>,
    <<"\\ud835", "\\udeaa">>, <<"\\ud835", "\\udeab">>,
    <<"\\ud835", "\\udeac">>, <<"\\ud835", "\\udead">>,
    <<"\\ud835", "\\udeae">>, <<"\\ud835", "\\udeaf">>,
    <<"\\ud835", "\\udeb0">>, <<"\\ud835", "\\udeb1">>,
    <<"\\ud835", "\\udeb2">>, <<"\\ud835", "\\udeb3">>,
    <<"\\ud835", "\\udeb4">>, <<"\\ud835", "\\udeb5">>,
    <<"\\ud835", "\\udeb6">>, <<"\\ud835", "\\udeb7">>,
    <<"\\ud835", "\\udeb8">>, <<"\\ud835", "\\udeb9">>,
    <<"\\ud835", "\\udeba">>, <<"\\ud835", "\\udebb">>,
    <<"\\ud835", "\\udebc">>, <<"\\ud835", "\\udebd">>,
    <<"\\ud835", "\\udebe">>, <<"\\ud835", "\\udebf">>,
    <<"\\ud835", "\\udec0">>, <<"\\ud835", "\\udec2">>,
    <<"\\ud835", "\\udec3">>, <<"\\ud835", "\\udec4">>,
    <<"\\ud835", "\\udec5">>, <<"\\ud835", "\\udec6">>,
    <<"\\ud835", "\\udec7">>, <<"\\ud835", "\\udec8">>,
    <<"\\ud835", "\\udec9">>, <<"\\ud835", "\\udeca">>,
    <<"\\ud835", "\\udecb">>, <<"\\ud835", "\\udecc">>,
    <<"\\ud835", "\\udecd">>, <<"\\ud835", "\\udece">>,
    <<"\\ud835", "\\udecf">>, <<"\\ud835", "\\uded0">>,
    <<"\\ud835", "\\uded1">>, <<"\\ud835", "\\uded2">>,
    <<"\\ud835", "\\uded3">>, <<"\\ud835", "\\uded4">>,
    <<"\\ud835", "\\uded5">>, <<"\\ud835", "\\uded6">>,
    <<"\\ud835", "\\uded7">>, <<"\\ud835", "\\uded8">>,
    <<"\\ud835", "\\uded9">>, <<"\\ud835", "\\udeda">>,
    <<"\\ud835", "\\udedc">>, <<"\\ud835", "\\udedd">>,
    <<"\\ud835", "\\udede">>, <<"\\ud835", "\\udedf">>,
    <<"\\ud835", "\\udee0">>, <<"\\ud835", "\\udee1">>,
    <<"\\ud835", "\\udee2">>, <<"\\ud835", "\\udee3">>,
    <<"\\ud835", "\\udee4">>, <<"\\ud835", "\\udee5">>,
    <<"\\ud835", "\\udee6">>, <<"\\ud835", "\\udee7">>,
    <<"\\ud835", "\\udee8">>, <<"\\ud835", "\\udee9">>,
    <<"\\ud835", "\\udeea">>, <<"\\ud835", "\\udeeb">>,
    <<"\\ud835", "\\udeec">>, <<"\\ud835", "\\udeed">>,
    <<"\\ud835", "\\udeee">>, <<"\\ud835", "\\udeef">>,
    <<"\\ud835", "\\udef0">>, <<"\\ud835", "\\udef1">>,
    <<"\\ud835", "\\udef2">>, <<"\\ud835", "\\udef3">>,
    <<"\\ud835", "\\udef4">>, <<"\\ud835", "\\udef5">>,
    <<"\\ud835", "\\udef6">>, <<"\\ud835", "\\udef7">>,
    <<"\\ud835", "\\udef8">>, <<"\\ud835", "\\udef9">>,
    <<"\\ud835", "\\udefa">>, <<"\\ud835", "\\udefc">>,
    <<"\\ud835", "\\udefd">>, <<"\\ud835", "\\udefe">>,
    <<"\\ud835", "\\udeff">>, <<"\\ud835", "\\udf00">>,
    <<"\\ud835", "\\udf01">>, <<"\\ud835", "\\udf02">>,
    <<"\\ud835", "\\udf03">>, <<"\\ud835", "\\udf04">>,
    <<"\\ud835", "\\udf05">>, <<"\\ud835", "\\udf06">>,
    <<"\\ud835", "\\udf07">>, <<"\\ud835", "\\udf08">>,
    <<"\\ud835", "\\udf09">>, <<"\\ud835", "\\udf0a">>,
    <<"\\ud835", "\\udf0b">>, <<"\\ud835", "\\udf0c">>,
    <<"\\ud835", "\\udf0d">>, <<"\\ud835", "\\udf0e">>,
    <<"\\ud835", "\\udf0f">>, <<"\\ud835", "\\udf10">>,
    <<"\\ud835", "\\udf11">>, <<"\\ud835", "\\udf12">>,
    <<"\\ud835", "\\udf13">>, <<"\\ud835", "\\udf14">>,
    <<"\\ud835", "\\udf16">>, <<"\\ud835", "\\udf17">>,
    <<"\\ud835", "\\udf18">>, <<"\\ud835", "\\udf19">>,
    <<"\\ud835", "\\udf1a">>, <<"\\ud835", "\\udf1b">>,
    <<"\\ud835", "\\udf1c">>, <<"\\ud835", "\\udf1d">>,
    <<"\\ud835", "\\udf1e">>, <<"\\ud835", "\\udf1f">>,
    <<"\\ud835", "\\udf20">>, <<"\\ud835", "\\udf21">>,
    <<"\\ud835", "\\udf22">>, <<"\\ud835", "\\udf23">>,
    <<"\\ud835", "\\udf24">>, <<"\\ud835", "\\udf25">>,
    <<"\\ud835", "\\udf26">>, <<"\\ud835", "\\udf27">>,
    <<"\\ud835", "\\udf28">>, <<"\\ud835", "\\udf29">>,
    <<"\\ud835", "\\udf2a">>, <<"\\ud835", "\\udf2b">>,
    <<"\\ud835", "\\udf2c">>, <<"\\ud835", "\\udf2d">>,
    <<"\\ud835", "\\udf2e">>, <<"\\ud835", "\\udf2f">>,
    <<"\\ud835", "\\udf30">>, <<"\\ud835", "\\udf31">>,
    <<"\\ud835", "\\udf32">>, <<"\\ud835", "\\udf33">>,
    <<"\\ud835", "\\udf34">>, <<"\\ud835", "\\udf36">>,
    <<"\\ud835", "\\udf37">>, <<"\\ud835", "\\udf38">>,
    <<"\\ud835", "\\udf39">>, <<"\\ud835", "\\udf3a">>,
    <<"\\ud835", "\\udf3b">>, <<"\\ud835", "\\udf3c">>,
    <<"\\ud835", "\\udf3d">>, <<"\\ud835", "\\udf3e">>,
    <<"\\ud835", "\\udf3f">>, <<"\\ud835", "\\udf40">>,
    <<"\\ud835", "\\udf41">>, <<"\\ud835", "\\udf42">>,
    <<"\\ud835", "\\udf43">>, <<"\\ud835", "\\udf44">>,
    <<"\\ud835", "\\udf45">>, <<"\\ud835", "\\udf46">>,
    <<"\\ud835", "\\udf47">>, <<"\\ud835", "\\udf48">>,
    <<"\\ud835", "\\udf49">>, <<"\\ud835", "\\udf4a">>,
    <<"\\ud835", "\\udf4b">>, <<"\\ud835", "\\udf4c">>,
    <<"\\ud835", "\\udf4d">>, <<"\\ud835", "\\udf4e">>,
    <<"\\ud835", "\\udf50">>, <<"\\ud835", "\\udf51">>,
    <<"\\ud835", "\\udf52">>, <<"\\ud835", "\\udf53">>,
    <<"\\ud835", "\\udf54">>, <<"\\ud835", "\\udf55">>,
    <<"\\ud835", "\\udf56">>, <<"\\ud835", "\\udf57">>,
    <<"\\ud835", "\\udf58">>, <<"\\ud835", "\\udf59">>,
    <<"\\ud835", "\\udf5a">>, <<"\\ud835", "\\udf5b">>,
    <<"\\ud835", "\\udf5c">>, <<"\\ud835", "\\udf5d">>,
    <<"\\ud835", "\\udf5e">>, <<"\\ud835", "\\udf5f">>,
    <<"\\ud835", "\\udf60">>, <<"\\ud835", "\\udf61">>,
    <<"\\ud835", "\\udf62">>, <<"\\ud835", "\\udf63">>,
    <<"\\ud835", "\\udf64">>, <<"\\ud835", "\\udf65">>,
    <<"\\ud835", "\\udf66">>, <<"\\ud835", "\\udf67">>,
    <<"\\ud835", "\\udf68">>, <<"\\ud835", "\\udf69">>,
    <<"\\ud835", "\\udf6a">>, <<"\\ud835", "\\udf6b">>,
    <<"\\ud835", "\\udf6c">>, <<"\\ud835", "\\udf6d">>,
    <<"\\ud835", "\\udf6e">>, <<"\\ud835", "\\udf70">>,
    <<"\\ud835", "\\udf71">>, <<"\\ud835", "\\udf72">>,
    <<"\\ud835", "\\udf73">>, <<"\\ud835", "\\udf74">>,
    <<"\\ud835", "\\udf75">>, <<"\\ud835", "\\udf76">>,
    <<"\\ud835", "\\udf77">>, <<"\\ud835", "\\udf78">>,
    <<"\\ud835", "\\udf79">>, <<"\\ud835", "\\udf7a">>,
    <<"\\ud835", "\\udf7b">>, <<"\\ud835", "\\udf7c">>,
    <<"\\ud835", "\\udf7d">>, <<"\\ud835", "\\udf7e">>,
    <<"\\ud835", "\\udf7f">>, <<"\\ud835", "\\udf80">>,
    <<"\\ud835", "\\udf81">>, <<"\\ud835", "\\udf82">>,
    <<"\\ud835", "\\udf83">>, <<"\\ud835", "\\udf84">>,
    <<"\\ud835", "\\udf85">>, <<"\\ud835", "\\udf86">>,
    <<"\\ud835", "\\udf87">>, <<"\\ud835", "\\udf88">>,
    <<"\\ud835", "\\udf8a">>, <<"\\ud835", "\\udf8b">>,
    <<"\\ud835", "\\udf8c">>, <<"\\ud835", "\\udf8d">>,
    <<"\\ud835", "\\udf8e">>, <<"\\ud835", "\\udf8f">>,
    <<"\\ud835", "\\udf90">>, <<"\\ud835", "\\udf91">>,
    <<"\\ud835", "\\udf92">>, <<"\\ud835", "\\udf93">>,
    <<"\\ud835", "\\udf94">>, <<"\\ud835", "\\udf95">>,
    <<"\\ud835", "\\udf96">>, <<"\\ud835", "\\udf97">>,
    <<"\\ud835", "\\udf98">>, <<"\\ud835", "\\udf99">>,
    <<"\\ud835", "\\udf9a">>, <<"\\ud835", "\\udf9b">>,
    <<"\\ud835", "\\udf9c">>, <<"\\ud835", "\\udf9d">>,
    <<"\\ud835", "\\udf9e">>, <<"\\ud835", "\\udf9f">>,
    <<"\\ud835", "\\udfa0">>, <<"\\ud835", "\\udfa1">>,
    <<"\\ud835", "\\udfa2">>, <<"\\ud835", "\\udfa3">>,
    <<"\\ud835", "\\udfa4">>, <<"\\ud835", "\\udfa5">>,
    <<"\\ud835", "\\udfa6">>, <<"\\ud835", "\\udfa7">>,
    <<"\\ud835", "\\udfa8">>, <<"\\ud835", "\\udfaa">>,
    <<"\\ud835", "\\udfab">>, <<"\\ud835", "\\udfac">>,
    <<"\\ud835", "\\udfad">>, <<"\\ud835", "\\udfae">>,
    <<"\\ud835", "\\udfaf">>, <<"\\ud835", "\\udfb0">>,
    <<"\\ud835", "\\udfb1">>, <<"\\ud835", "\\udfb2">>,
    <<"\\ud835", "\\udfb3">>, <<"\\ud835", "\\udfb4">>,
    <<"\\ud835", "\\udfb5">>, <<"\\ud835", "\\udfb6">>,
    <<"\\ud835", "\\udfb7">>, <<"\\ud835", "\\udfb8">>,
    <<"\\ud835", "\\udfb9">>, <<"\\ud835", "\\udfba">>,
    <<"\\ud835", "\\udfbb">>, <<"\\ud835", "\\udfbc">>,
    <<"\\ud835", "\\udfbd">>, <<"\\ud835", "\\udfbe">>,
    <<"\\ud835", "\\udfbf">>, <<"\\ud835", "\\udfc0">>,
    <<"\\ud835", "\\udfc1">>, <<"\\ud835", "\\udfc2">>,
    <<"\\ud835", "\\udfc4">>, <<"\\ud835", "\\udfc5">>,
    <<"\\ud835", "\\udfc6">>, <<"\\ud835", "\\udfc7">>,
    <<"\\ud835", "\\udfc8">>, <<"\\ud835", "\\udfc9">>,
    <<"\\ud835", "\\udfca">>, <<"\\ud835", "\\udfcb">>,
    <<"\\ud837", "\\udf00">>, <<"\\ud837", "\\udf01">>,
    <<"\\ud837", "\\udf02">>, <<"\\ud837", "\\udf03">>,
    <<"\\ud837", "\\udf04">>, <<"\\ud837", "\\udf05">>,
    <<"\\ud837", "\\udf06">>, <<"\\ud837", "\\udf07">>,
    <<"\\ud837", "\\udf08">>, <<"\\ud837", "\\udf09">>,
    <<"\\ud837", "\\udf0b">>, <<"\\ud837", "\\udf0c">>,
    <<"\\ud837", "\\udf0d">>, <<"\\ud837", "\\udf0e">>,
    <<"\\ud837", "\\udf0f">>, <<"\\ud837", "\\udf10">>,
    <<"\\ud837", "\\udf11">>, <<"\\ud837", "\\udf12">>,
    <<"\\ud837", "\\udf13">>, <<"\\ud837", "\\udf14">>,
    <<"\\ud837", "\\udf15">>, <<"\\ud837", "\\udf16">>,
    <<"\\ud837", "\\udf17">>, <<"\\ud837", "\\udf18">>,
    <<"\\ud837", "\\udf19">>, <<"\\ud837", "\\udf1a">>,
    <<"\\ud837", "\\udf1b">>, <<"\\ud837", "\\udf1c">>,
    <<"\\ud837", "\\udf1d">>, <<"\\ud837", "\\udf1e">>,
    <<"\\ud837", "\\udf25">>, <<"\\ud837", "\\udf26">>,
    <<"\\ud837", "\\udf27">>, <<"\\ud837", "\\udf28">>,
    <<"\\ud837", "\\udf29">>, <<"\\ud837", "\\udf2a">>,
    <<"\\ud83a", "\\udd00">>, <<"\\ud83a", "\\udd01">>,
    <<"\\ud83a", "\\udd02">>, <<"\\ud83a", "\\udd03">>,
    <<"\\ud83a", "\\udd04">>, <<"\\ud83a", "\\udd05">>,
    <<"\\ud83a", "\\udd06">>, <<"\\ud83a", "\\udd07">>,
    <<"\\ud83a", "\\udd08">>, <<"\\ud83a", "\\udd09">>,
    <<"\\ud83a", "\\udd0a">>, <<"\\ud83a", "\\udd0b">>,
    <<"\\ud83a", "\\udd0c">>, <<"\\ud83a", "\\udd0d">>,
    <<"\\ud83a", "\\udd0e">>, <<"\\ud83a", "\\udd0f">>,
    <<"\\ud83a", "\\udd10">>, <<"\\ud83a", "\\udd11">>,
    <<"\\ud83a", "\\udd12">>, <<"\\ud83a", "\\udd13">>,
    <<"\\ud83a", "\\udd14">>, <<"\\ud83a", "\\udd15">>,
    <<"\\ud83a", "\\udd16">>, <<"\\ud83a", "\\udd17">>,
    <<"\\ud83a", "\\udd18">>, <<"\\ud83a", "\\udd19">>,
    <<"\\ud83a", "\\udd1a">>, <<"\\ud83a", "\\udd1b">>,
    <<"\\ud83a", "\\udd1c">>, <<"\\ud83a", "\\udd1d">>,
    <<"\\ud83a", "\\udd1e">>, <<"\\ud83a", "\\udd1f">>,
    <<"\\ud83a", "\\udd20">>, <<"\\ud83a", "\\udd21">>,
    <<"\\ud83a", "\\udd22">>, <<"\\ud83a", "\\udd23">>,
    <<"\\ud83a", "\\udd24">>, <<"\\ud83a", "\\udd25">>,
    <<"\\ud83a", "\\udd26">>, <<"\\ud83a", "\\udd27">>,
    <<"\\ud83a", "\\udd28">>, <<"\\ud83a", "\\udd29">>,
    <<"\\ud83a", "\\udd2a">>, <<"\\ud83a", "\\udd2b">>,
    <<"\\ud83a", "\\udd2c">>, <<"\\ud83a", "\\udd2d">>,
    <<"\\ud83a", "\\udd2e">>, <<"\\ud83a", "\\udd2f">>,
    <<"\\ud83a", "\\udd30">>, <<"\\ud83a", "\\udd31">>,
    <<"\\ud83a", "\\udd32">>, <<"\\ud83a", "\\udd33">>,
    <<"\\ud83a", "\\udd34">>, <<"\\ud83a", "\\udd35">>,
    <<"\\ud83a", "\\udd36">>, <<"\\ud83a", "\\udd37">>,
    <<"\\ud83a", "\\udd38">>, <<"\\ud83a", "\\udd39">>,
    <<"\\ud83a", "\\udd3a">>, <<"\\ud83a", "\\udd3b">>,
    <<"\\ud83a", "\\udd3c">>, <<"\\ud83a", "\\udd3d">>,
    <<"\\ud83a", "\\udd3e">>, <<"\\ud83a", "\\udd3f">>,
    <<"\\ud83a", "\\udd40">>, <<"\\ud83a", "\\udd41">>,
    <<"\\ud83a", "\\udd42">>, <<"\\ud83a", "\\udd43">>,
    <<"\\ud83c", "\\udd30">>, <<"\\ud83c", "\\udd31">>,
    <<"\\ud83c", "\\udd32">>, <<"\\ud83c", "\\udd33">>,
    <<"\\ud83c", "\\udd34">>, <<"\\ud83c", "\\udd35">>,
    <<"\\ud83c", "\\udd36">>, <<"\\ud83c", "\\udd37">>,
    <<"\\ud83c", "\\udd38">>, <<"\\ud83c", "\\udd39">>,
    <<"\\ud83c", "\\udd3a">>, <<"\\ud83c", "\\udd3b">>,
    <<"\\ud83c", "\\udd3c">>, <<"\\ud83c", "\\udd3d">>,
    <<"\\ud83c", "\\udd3e">>, <<"\\ud83c", "\\udd3f">>,
    <<"\\ud83c", "\\udd40">>, <<"\\ud83c", "\\udd41">>,
    <<"\\ud83c", "\\udd42">>, <<"\\ud83c", "\\udd43">>,
    <<"\\ud83c", "\\udd44">>, <<"\\ud83c", "\\udd45">>,
    <<"\\ud83c", "\\udd46">>, <<"\\ud83c", "\\udd47">>,
    <<"\\ud83c", "\\udd48">>, <<"\\ud83c", "\\udd49">>,
    <<"\\ud83c", "\\udd50">>, <<"\\ud83c", "\\udd51">>,
    <<"\\ud83c", "\\udd52">>, <<"\\ud83c", "\\udd53">>,
    <<"\\ud83c", "\\udd54">>, <<"\\ud83c", "\\udd55">>,
    <<"\\ud83c", "\\udd56">>, <<"\\ud83c", "\\udd57">>,
    <<"\\ud83c", "\\udd58">>, <<"\\ud83c", "\\udd59">>,
    <<"\\ud83c", "\\udd5a">>, <<"\\ud83c", "\\udd5b">>,
    <<"\\ud83c", "\\udd5c">>, <<"\\ud83c", "\\udd5d">>,
    <<"\\ud83c", "\\udd5e">>, <<"\\ud83c", "\\udd5f">>,
    <<"\\ud83c", "\\udd60">>, <<"\\ud83c", "\\udd61">>,
    <<"\\ud83c", "\\udd62">>, <<"\\ud83c", "\\udd63">>,
    <<"\\ud83c", "\\udd64">>, <<"\\ud83c", "\\udd65">>,
    <<"\\ud83c", "\\udd66">>, <<"\\ud83c", "\\udd67">>,
    <<"\\ud83c", "\\udd68">>, <<"\\ud83c", "\\udd69">>,
    <<"\\ud83c", "\\udd70">>, <<"\\ud83c", "\\udd71">>,
    <<"\\ud83c", "\\udd72">>, <<"\\ud83c", "\\udd73">>,
    <<"\\ud83c", "\\udd74">>, <<"\\ud83c", "\\udd75">>,
    <<"\\ud83c", "\\udd76">>, <<"\\ud83c", "\\udd77">>,
    <<"\\ud83c", "\\udd78">>, <<"\\ud83c", "\\udd79">>,
    <<"\\ud83c", "\\udd7a">>, <<"\\ud83c", "\\udd7b">>,
    <<"\\ud83c", "\\udd7c">>, <<"\\ud83c", "\\udd7d">>,
    <<"\\ud83c", "\\udd7e">>, <<"\\ud83c", "\\udd7f">>,
    <<"\\ud83c", "\\udd80">>, <<"\\ud83c", "\\udd81">>,
    <<"\\ud83c", "\\udd82">>, <<"\\ud83c", "\\udd83">>,
    <<"\\ud83c", "\\udd84">>, <<"\\ud83c", "\\udd85">>,
    <<"\\ud83c", "\\udd86">>, <<"\\ud83c", "\\udd87">>,
    <<"\\ud83c", "\\udd88">>, <<"\\ud83c", "\\udd89">>
  }

\* the code units with the property Case_Ignorable
CaseIgnorable ==
  {
    "'", ".", ":", "^", "\\u0060", "¨", "\\u00ad", "¯", "´", "·", "¸",
    "\\u02b0", "\\u02b1", "\\u02b2", "\\u02b3", "\\u02b4", "\\u02b5",
    "\\u02b6", "\\u02b7", "\\u02b8", "\\u02b9", "\\u02ba", "\\u02bb",
    "\\u02bc", "\\u02bd", "\\u02be", "\\u02bf", "\\u02c0", "\\u02c1",
    "\\u02c2", "\\u02c3", "\\u02c4", "\\u02c5", "\\u02c6", "\\u02c7",
    "\\u02c8", "\\u02c9", "\\u02ca", "\\u02cb", "\\u02cc", "\\u02cd",
    "\\u02ce", "\\u02cf", "\\u02d0", "\\u02d1", "\\u02d2", "\\u02d3",
    "\\u02d4", "\\u02d5", "\\u02d6", "\\u02d7", "\\u02d8", "\\u02d9",
    "\\u02da", "\\u02db", "\\u02dc", "\\u02dd", "\\u02de", "\\u02df",
    "\\u02e0", "\\u02e1", "\\u02e2", "\\u02e3", "\\u02e4", "\\u02e5",
    "\\u02e6", "\\u02e7", "\\u02e8", "\\u02e9", "\\u02ea", "\\u02eb",
    "\\u02ec", "\\u02ed", "\\u02ee", "\\u02ef", "\\u02f0", "\\u02f1",
    "\\u02f2", "\\u02f3", "\\u02f4", "\\u02f5", "\\u02f6", "\\u02f7",
    "\\u02f8", "\\u02f9", "\\u02fa", "\\u02fb", "\\u02fc", "\\u02fd",
    "\\u02fe", "\\u02ff", "\\u0300", "\\u0301", "\\u0302", "\\u0303",
    "\\u0304", "\\u0305", "\\u0306", "\\u0307", "\\u0308", "\\u0309",
    "\\u030a", "\\u030b", "\\u030c", "\\u030d", "\\u030e", "\\u030f",
    "\\u0310", "\\u0311", "\\u0312", "\\u0313", "\\u0314", "\\u0315",
    "\\u0316", "\\u0317", "\\u0318", "\\u0319", "\\u031a", "\\u031b",
    "\\u031c", "\\u031d", "\\u031e", "\\u031f", "\\u0320", "\\u0321",
    "\\u0322", "\\u0323", "\\u0324", "\\u0325", "\\u0326", "\\u0327",
    "\\u0328", "\\u0329", "\\u032a", "\\u032b", "\\u032c", "\\u032d",
    "\\u032e", "\\u032f", "\\u0330", "\\u0331", "\\u0332", "\\u0333",
    "\\u0334", "\\u0335", "\\u0336", "\\u0337", "\\u0338", "\\u0339",
    "\\u033a", "\\u033b", "\\u033c", "\\u033d", "\\u033e", "\\u033f",
    "\\u0340", "\\u0341", "\\u0342", "\\u0343", "\\u0344", "\\u0345",
    "\\u0346", "\\u0347", "\\u0348", "\\u0349", "\\u034a", "\\u034b",
    "\\u034c", "\\u034d", "\\u034e", "\\u034f", "\\u0350", "\\u0351",
    "\\u0352", "\\u0353", "\\u0354", "\\u0355", "\\u0356", "\\u0357",
    "\\u0358", "\\u0359", "\\u035a", "\\u035b", "\\u035c", "\\u035d",
    "\\u035e", "\\u035f", "\\u0360", "\\u0361", "\\u0362", "\\u0363",
    "\\u0364", "\\u0365", "\\u0366", "\\u0367", "\\u0368", "\\u0369",
    "\\u036a", "\\u036b", "\\u036c", "\\u036d", "\\u036e", "\\u036f",
    "\\u0374", "\\u0375", "\\u037a", "\\u0384", "\\u0385", "\\u0387",
    "\\u0483", "\\u0484", "\\u0485", "\\u0486", "\\u0487", "\\u0488",
    "\\u0489", "\\u0559", "\\u055f", "\\u0591", "\\u0592", "\\u0593",
    "\\u0594", "\\u0595", "\\u0596", "\\u0597", "\\u0598", "\\u0599",
    "\\u059a", "\\u059b", "\\u059c", "\\u059d", "\\u059e", "\\u059f",
    "\\u05a0", "\\u05a1", "\\u05a2", "\\u05a3", "\\u05a4", "\\u05a5",
    "\\u05a6", "\\u05a7", "\\u05a8", "\\u05a9", "\\u05aa", "\\u05ab",
    "\\u05ac", "\\u05ad", "\\u05ae", "\\u05af", "\\u05b0", "\\u05b1",
    "\\u05b2", "\\u05b3", "\\u05b4", "\\u05b5", "\\u05b6", "\\u05b7",
    "\\u05b8", "\\u05b9", "\\u05ba", "\\u05bb", "\\u05bc", "\\u05bd",
    "\\u05bf", "\\u05c1", "\\u05c2", "\\u05c4", "\\u05c5", "\\u05c7",
    "\\u05f4", "\\u0600", "\\u0601", "\\u0602", "\\u0603", "\\u0604",
    "\\u0605", "\\u0610", "\\u0611", "\\u0612", "\\u0613", "\\u0614",
    "\\u0615", "\\u0616", "\\u0617", "\\u0618", "\\u0619", "\\u061a",
    "\\u061c", "\\u0640", "\\u064b", "\\u064c", "\\u064d", "\\u064e",
    "\\u064f", "\\u0650", "\\u0651", "\\u0652", "\\u0653", "\\u0654",
    "\\u0655", "\\u0656", "\\u0657", "\\u0658", "\\u0659", "\\u065a",
    "\\u065b", "\\u065c", "\\u065d", "\\u065e", "\\u065f", "\\u0670",
    "\\u06d6", "\\u06d7", "\\u06d8", "\\u06d9", "\\u06da", "\\u06db",
    "\\u06dc", "\\u06dd", "\\u06df", "\\u06e0", "\\u06e1", "\\u06e2",
    "\\u06e3", "\\u06e4", "\\u06e5", "\\u06e6", "\\u06e7", "\\u06e8",
    "\\u06ea", "\\u06eb", "\\u06ec", "\\u06ed", "\\u070f", "\\u0711",
    "\\u0730", "\\u0731", "\\u0732", "\\u0733", "\\u0734", "\\u0735",
    "\\u0736", "\\u0737", "\\u0738", "\\u0739", "\\u073a", "\\u073b",
    "\\u073c", "\\u073d", "\\u073e", "\\u073f", "\\u0740", "\\u0741",
    "\\u0742", "\\u0743", "\\u0744", "\\u0745", "\\u0746", "\\u0747",
    "\\u0748", "\\u0749", "\\u074a", "\\u07a6", "\\u07a7", "\\u07a8",
    "\\u07a9", "\\u07aa", "\\u07ab", "\\u07ac", "\\u07ad", "\\u07ae",
    "\\u07af", "\\u07b0", "\\u07eb", "\\u07ec", "\\u07ed", "\\u07ee",
    "\\u07ef", "\\u07f0", "\\u07f1", "\\u07f2", "\\u07f3", "\\u07f4",
    "\\u07f5", "\\u07fa", "\\u07fd", "\\u0816", "\\u0817", "\\u0818",
    "\\u0819", "\\u081a", "\\u081b", "\\u081c", "\\u081d", "\\u081e",
    "\\u081f", "\\u0820", "\\u0821", "\\u0822", "\\u0823", "\\u0824",
    "\\u0825", "\\u0826", "\\u0827", "\\u0828", "\\u0829", "\\u082a",
    "\\u082b", "\\u082c", "\\u082d", "\\u0859", "\\u085a", "\\u085b",
    "\\u0888", "\\u0890", "\\u0891", "\\u0897", "\\u0898", "\\u0899",
    "\\u089a", "\\u089b", "\\u089c", "\\u089d", "\\u089e", "\\u089f",
    "\\u08c9", "\\u08ca", "\\u08cb", "\\u08cc", "\\u08cd", "\\u08ce",
    "\\u08cf", "\\u08d0", "\\u08d1", "\\u08d2", "\\u08d3", "\\u08d4",
    "\\u08d5", "\\u08d6", "\\u08d7", "\\u08d8", "\\u08d9", "\\u08da",
    "\\u08db", "\\u08dc", "\\u08dd", "\\u08de", "\\u08df", "\\u08e0",
    "\\u08e1", "\\u08e2", "\\u08e3", "\\u08e4", "\\u08e5", "\\u08e6",
    "\\u08e7", "\\u08e8", "\\u08e9", "\\u08ea", "\\u08eb", "\\u08ec",
    "\\u08ed", "\\u08ee", "\\u08ef", "\\u08f0", "\\u08f1", "\\u08f2",
    "\\u08f3", "\\u08f4", "\\u08f5", "\\u08f6", "\\u08f7", "\\u08f8",
    "\\u08f9", "\\u08fa", "\\u08fb", "\\u08fc", "\\u08fd", "\\u08fe",
    "\\u08ff", "\\u0900", "\\u0901", "\\u0902", "\\u093a", "\\u093c",
    "\\u0941", "\\u0942", "\\u0943", "\\u0944", "\\u0945", "\\u0946",
    "\\u0947", "\\u0948", "\\u094d", "\\u0951", "\\u0952", "\\u0953",
    "\\u0954", "\\u0955", "\\u0956", "\\u0957", "\\u0962", "\\u0963",
    "\\u0971", "\\u0981", "\\u09bc", "\\u09c1", "\\u09c2", "\\u09c3",
    "\\u09c4", "\\u09cd", "\\u09e2", "\\u09e3", "\\u09fe", "\\u0a01",
    "\\u0a02", "\\u0a3c", "\\u0a41", "\\u0a42", "\\u0a47", "\\u0a48",
    "\\u0a4b", "\\u0a4c", "\\u0a4d", "\\u0a51", "\\u0a70", "\\u0a71",
    "\\u0a75", "\\u0a81", "\\u0a82", "\\u0abc", "\\u0ac1", "\\u0ac2",
    "\\u0ac3", "\\u0ac4", "\\u0ac5", "\\u0ac7", "\\u0ac8", "\\u0acd",
    "\\u0ae2", "\\u0ae3", "\\u0afa", "\\u0afb", "\\u0afc", "\\u0afd",
    "\\u0afe", "\\u0aff", "\\u0b01", "\\u0b3c", "\\u0b3f", "\\u0b41",
    "\\u0b42", "\\u0b43", "\\u0b44", "\\u0b4d", "\\u0b55", "\\u0b56",
    "\\u0b62", "\\u0b63", "\\u0b82", "\\u0bc0", "\\u0bcd", "\\u0c00",
    "\\u0c04", "\\u0c3c", "\\u0c3e", "\\u0c3f", "\\u0c40", "\\u0c46",
    "\\u0c47", "\\u0c48", "\\u0c4a", "\\u0c4b", "\\u0c4c", "\\u0c4d",
    "\\u0c55", "\\u0c56", "\\u0c62", "\\u0c63", "\\u0c81", "\\u0cbc",
    "\\u0cbf", "\\u0cc6", "\\u0ccc", "\\u0ccd", "\\u0ce2", "\\u0ce3",
    "\\u0d00", "\\u0d01", "\\u0d3b", "\\u0d3c", "\\u0d41", "\\u0d42",
    "\\u0d43", "\\u0d44", "\\u0d4d", "\\u0d62", "\\u0d63", "\\u0d81",
    "\\u0dca", "\\u0dd2", "\\u0dd3", "\\u0dd4", "\\u0dd6", "\\u0e31",
    "\\u0e34", "\\u0e35", "\\u0e36", "\\u0e37", "\\u0e38", "\\u0e39",
    "\\u0e3a", "\\u0e46", "\\u0e47", "\\u0e48", "\\u0e49", "\\u0e4a",
    "\\u0e4b", "\\u0e4c", "\\u0e4d", "\\u0e4e", "\\u0eb1", "\\u0eb4",
    "\\u0eb5", "\\u0eb6", "\\u0eb7", "\\u0eb8", "\\u0eb9", "\\u0eba",
    "\\u0ebb", "\\u0ebc", "\\u0ec6", "\\u0ec8", "\\u0ec9", "\\u0eca",
    "\\u0ecb", "\\u0ecc", "\\u0ecd", "\\u0ece", "\\u0f18", "\\u0f19",
    "\\u0f35", "\\u0f37", "\\u0f39", "\\u0f71", "\\u0f72", "\\u0f73",
    "\\u0f74", "\\u0f75", "\\u0f76", "\\u0f77", "\\u0f78", "\\u0f79",
    "\\u0f7a", "\\u0f7b", "\\u0f7c", "\\u0f7d", "\\u0f7e", "\\u0f80",
    "\\u0f81", "\\u0f82", "\\u0f83", "\\u0f84", "\\u0f86", "\\u0f87",
    "\\u0f8d", "\\u0f8e", "\\u0f8f", "\\u0f90", "\\u0f91", "\\u0f92",
    "\\u0f93", "\\u0f94", "\\u0f95", "\\u0f96", "\\u0f97", "\\u0f99",
    "\\u0f9a", "\\u0f9b", "\\u0f9c", "\\u0f9d", "\\u0f9e", "\\u0f9f",
    "\\u0fa0", "\\u0fa1", "\\u0fa2", "\\u0fa3", "\\u0fa4", "\\u0fa5",
    "\\u0fa6", "\\u0fa7", "\\u0fa8", "\\u0fa9", "\\u0faa", "\\u0fab",
    "\\u0fac", "\\u0fad", "\\u0fae", "\\u0faf", "\\u0fb0", "\\u0fb1",
    "\\u0fb2", "\\u0fb3", "\\u0fb4", "\\u0fb5", "\\u0fb6", "\\u0fb7",
    "\\u0fb8", "\\u0fb9", "\\u0fba", "\\u0fbb", "\\u0fbc", "\\u0fc6",
    "\\u102d", "\\u102e", "\\u102f", "\\u1030", "\\u1032", "\\u1033",
    "\\u1034", "\\u1035", "\\u1036", "\\u1037", "\\u1039", "\\u103a",
    "\\u103d", "\\u103e", "\\u1058", "\\u1059", "\\u105e", "\\u105f",
    "\\u1060", "\\u1071", "\\u1072", "\\u1073", "\\u1074", "\\u1082",
    "\\u1085", "\\u1086", "\\u108d", "\\u109d", "\\u10fc", "\\u135d",
    "\\u135e", "\\u135f", "\\u1712", "\\u1713", "\\u1714", "\\u1732",
    "\\u1733", "\\u1752", "\\u1753", "\\u1772", "\\u1773", "\\u17b4",
    "\\u17b5", "\\u17b7", "\\u17b8", "\\u17b9", "\\u17ba", "\\u17bb",
    "\\u17bc", "\\u17bd", "\\u17c6", "\\u17c9", "\\u17ca", "\\u17cb",
    "\\u17cc", "\\u17cd", "\\u17ce", "\\u17cf", "\\u17d0", "\\u17d1",
    "\\u17d2", "\\u17d3", "\\u17d7", "\\u17dd", "\\u180b", "\\u180c",
    "\\u180d", "\\u180e", "\\u180f", "\\u1843", "\\u1885", "\\u1886",
    "\\u18a9", "\\u1920", "\\u1921", "\\u1922", "\\u1927", "\\u1928",
    "\\u1932", "\\u1939", "\\u193a", "\\u193b", "\\u1a17", "\\u1a18",
    "\\u1a1b", "\\u1a56", "\\u1a58", "\\u1a59", "\\u1a5a", "\\u1a5b",
    "\\u1a5c", "\\u1a5d", "\\u1a5e", "\\u1a60", "\\u1a62", "\\u1a65",
    "\\u1a66", "\\u1a67", "\\u1a68", "\\u1a69", "\\u1a6a", "\\u1a6b",
    "\\u1a6c", "\\u1a73", "\\u1a74", "\\u1a75", "\\u1a76", "\\u1a77",
    "\\u1a78", "\\u1a79", "\\u1a7a", "\\u1a7b", "\\u1a7c", "\\u1a7f",
    "\\u1aa7", "\\u1ab0", "\\u1ab1", "\\u1ab2", "\\u1ab3", "\\u1ab4",
    "\\u1ab5", "\\u1ab6", "\\u1ab7", "\\u1ab8", "\\u1ab9", "\\u1aba",
    "\\u1abb", "\\u1abc", "\\u1abd", "\\u1abe", "\\u1abf", "\\u1ac0",
    "\\u1ac1", "\\u1ac2", "\\u1ac3", "\\u1ac4", "\\u1ac5", "\\u1ac6",
    "\\u1ac7", "\\u1ac8", "\\u1ac9", "\\u1aca", "\\u1acb", "\\u1acc",
    "\\u1acd", "\\u1ace", "\\u1acf", "\\u1ad0", "\\u1ad1", "\\u1ad2",
    "\\u1ad3", "\\u1ad4", "\\u1ad5", "\\u1ad6", "\\u1ad7", "\\u1ad8",
    "\\u1ad9", "\\u1ada", "\\u1adb", "\\u1adc", "\\u1add", "\\u1ae0",
    "\\u1ae1", "\\u1ae2", "\\u1ae3", "\\u1ae4", "\\u1ae5", "\\u1ae6",
    "\\u1ae7", "\\u1ae8", "\\u1ae9", "\\u1aea", "\\u1aeb", "\\u1b00",
    "\\u1b01", "\\u1b02", "\\u1b03", "\\u1b34", "\\u1b36", "\\u1b37",
    "\\u1b38", "\\u1b39", "\\u1b3a", "\\u1b3c", "\\u1b42", "\\u1b6b",
    "\\u1b6c", "\\u1b6d", "\\u1b6e", "\\u1b6f", "\\u1b70", "\\u1b71",
    "\\u1b72", "\\u1b73", "\\u1b80", "\\u1b81", "\\u1ba2", "\\u1ba3",
    "\\u1ba4", "\\u1ba5", "\\u1ba8", "\\u1ba9", "\\u1bab", "\\u1bac",
    "\\u1bad", "\\u1be6", "\\u1be8", "\\u1be9", "\\u1bed", "\\u1bef",
    "\\u1bf0", "\\u1bf1", "\\u1c2c", "\\u1c2d", "\\u1c2e", "\\u1c2f",
    "\\u1c30", "\\u1c31", "\\u1c32", "\\u1c33", "\\u1c36", "\\u1c37",
    "\\u1c78", "\\u1c79", "\\u1c7a", "\\u1c7b", "\\u1c7c", "\\u1c7d",
    "\\u1cd0", "\\u1cd1", "\\u1cd2", "\\u1cd4", "\\u1cd5", "\\u1cd6",
    "\\u1cd7", "\\u1cd8", "\\u1cd9", "\\u1cda", "\\u1cdb", "\\u1cdc",
    "\\u1cdd", "\\u1cde", "\\u1cdf", "\\u1ce0", "\\u1ce2", "\\u1ce3",
    "\\u1ce4", "\\u1ce5", "\\u1ce6", "\\u1ce7", "\\u1ce8", "\\u1ced",
    "\\u1cf4", "\\u1cf8", "\\u1cf9", "\\u1d2c", "\\u1d2d", "\\u1d2e",
    "\\u1d2f", "\\u1d30", "\\u1d31", "\\u1d32", "\\u1d33", "\\u1d34",
    "\\u1d35", "\\u1d36", "\\u1d37", "\\u1d38", "\\u1d39", "\\u1d3a",
    "\\u1d3b", "\\u1d3c", "\\u1d3d", "\\u1d3e", "\\u1d3f", "\\u1d40",
    "\\u1d41", "\\u1d42", "\\u1d43", "\\u1d44", "\\u1d45", "\\u1d46",
    "\\u1d47", "\\u1d48", "\\u1d49", "\\u1d4a", "\\u1d4b", "\\u1d4c",
    "\\u1d4d", "\\u1d4e", "\\u1d4f", "\\u1d50", "\\u1d51", "\\u1d52",
    "\\u1d53", "\\u1d54", "\\u1d55", "\\u1d56", "\\u1d57", "\\u1d58",
    "\\u1d59", "\\u1d5a", "\\u1d5b", "\\u1d5c", "\\u1d5d", "\\u1d5e",
    "\\u1d5f", "\\u1d60", "\\u1d61", "\\u1d62", "\\u1d63", "\\u1d64",
    "\\u1d65", "\\u1d66", "\\u1d67", "\\u1d68", "\\u1d69", "\\u1d6a",
    "\\u1d78", "\\u1d9b", "\\u1d9c", "\\u1d9d", "\\u1d9e", "\\u1d9f",
    "\\u1da0", "\\u1da1", "\\u1da2", "\\u1da3", "\\u1da4", "\\u1da5",
    "\\u1da6", "\\u1da7", "\\u1da8", "\\u1da9", "\\u1daa", "\\u1dab",
    "\\u1dac", "\\u1dad", "\\u1dae", "\\u1daf", "\\u1db0", "\\u1db1",
    "\\u1db2", "\\u1db3", "\\u1db4", "\\u1db5", "\\u1db6", "\\u1db7",
    "\\u1db8", "\\u1db9", "\\u1dba", "\\u1dbb", "\\u1dbc", "\\u1dbd",
    "\\u1dbe", "\\u1dbf", "\\u1dc0", "\\u1dc1", "\\u1dc2", "\\u1dc3",
    "\\u1dc4", "\\u1dc5", "\\u1dc6", "\\u1dc7", "\\u1dc8", "\\u1dc9",
    "\\u1dca", "\\u1dcb", "\\u1dcc", "\\u1dcd", "\\u1dce", "\\u1dcf",
    "\\u1dd0", "\\u1dd1", "\\u1dd2", "\\u1dd3", "\\u1dd4", "\\u1dd5",
    "\\u1dd6", "\\u1dd7", "\\u1dd8", "\\u1dd9", "\\u1dda", "\\u1ddb",
    "\\u1ddc", "\\u1ddd", "\\u1dde", "\\u1ddf", "\\u1de0", "\\u1de1",
    "\\u1de2", "\\u1de3", "\\u1de4", "\\u1de5", "\\u1de6", "\\u1de7",
    "\\u1de8", "\\u1de9", "\\u1dea", "\\u1deb", "\\u1dec", "\\u1ded",
    "\\u1dee", "\\u1def", "\\u1df0", "\\u1df1", "\\u1df2", "\\u1df3",
    "\\u1df4", "\\u1df5", "\\u1df6", "\\u1df7", "\\u1df8", "\\u1df9",
    "\\u1dfa", "\\u1dfb", "\\u1dfc", "\\u1dfd", "\\u1dfe", "\\u1dff",
    "\\u1fbd", "\\u1fbf", "\\u1fc0", "\\u1fc1", "\\u1fcd", "\\u1fce",
    "\\u1fcf", "\\u1fdd", "\\u1fde", "\\u1fdf", "\\u1fed", "\\u1fee",
    "\\u1fef", "\\u1ffd", "\\u1ffe", "\\u200b", "\\u200c", "\\u200d",
    "\\u200e", "\\u200f", "\\u2018", "\\u2019", "\\u2024", "\\u2027",
    "\\u202a", "\\u202b", "\\u202c", "\\u202d", "\\u202e", "\\u2060",
    "\\u2061", "\\u2062", "\\u2063", "\\u2064", "\\u2066", "\\u2067",
    "\\u2068", "\\u2069", "\\u206a", "\\u206b", "\\u206c", "\\u206d",
    "\\u206e", "\\u206f", "\\u2071", "\\u207f", "\\u2090", "\\u2091",
    "\\u2092", "\\u2093", "\\u2094", "\\u2095", "\\u2096", "\\u2097",
    "\\u2098", "\\u2099", "\\u209a", "\\u209b", "\\u209c", "\\u20d0",
    "\\u20d1", "\\u20d2", "\\u20d3", "\\u20d4", "\\u20d5", "\\u20d6",
    "\\u20d7", "\\u20d8", "\\u20d9", "\\u20da", "\\u20db", "\\u20dc",
    "\\u20dd", "\\u20de", "\\u20df", "\\u20e0", "\\u20e1", "\\u20e2",
    "\\u20e3", "\\u20e4", "\\u20e5", "\\u20e6", "\\u20e7", "\\u20e8",
    "\\u20e9", "\\u20ea", "\\u20eb", "\\u20ec", "\\u20ed", "\\u20ee",
    "\\u20ef", "\\u20f0", "\\u2c7c", "\\u2c7d", "\\u2cef", "\\u2cf0",
    "\\u2cf1", "\\u2d6f", "\\u2d7f", "\\u2de0", "\\u2de1", "\\u2de2",
    "\\u2de3", "\\u2de4", "\\u2de5", "\\u2de6", "\\u2de7", "\\u2de8",
    "\\u2de9", "\\u2dea", "\\u2deb", "\\u2dec", "\\u2ded", "\\u2dee",
    "\\u2def", "\\u2df0", "\\u2df1", "\\u2df2", "\\u2df3", "\\u2df4",
    "\\u2df5", "\\u2df6", "\\u2df7", "\\u2df8", "\\u2df9", "\\u2dfa",
    "\\u2dfb", "\\u2dfc", "\\u2dfd", "\\u2dfe", "\\u2dff", "\\u2e2f",
    "\\u3005", "\\u302a", "\\u302b", "\\u302c", "\\u302d", "\\u3031",
    "\\u3032", "\\u3033", "\\u3034", "\\u3035", "\\u303b", "\\u3099",
    "\\u309a", "\\u309b", "\\u309c", "\\u309d", "\\u309e", "\\u30fc",
    "\\u30fd", "\\u30fe", "\\ua015", "\\ua4f8", "\\ua4f9", "\\ua4fa",
    "\\ua4fb", "\\ua4fc", "\\ua4fd", "\\ua60c", "\\ua66f", "\\ua670",
    "\\ua671", "\\ua672", "\\ua674", "\\ua675", "\\ua676", "\\ua677",
    "\\ua678", "\\ua679", "\\ua67a", "\\ua67b", "\\ua67c", "\\ua67d",
    "\\ua67f", "\\ua69c", "\\ua69d", "\\ua69e", "\\ua69f", "\\ua6f0",
    "\\ua6f1", "\\ua700", "\\ua701", "\\ua702", "\\ua703", "\\ua704",
    "\\ua705", "\\ua706", "\\ua707", "\\ua708", "\\ua709", "\\ua70a",
    "\\ua70b", "\\ua70c", "\\ua70d", "\\ua70e", "\\ua70f", "\\ua710",
    "\\ua711", "\\ua712", "\\ua713", "\\ua714", "\\ua715", "\\ua716",
    "\\ua717", "\\ua718", "\\ua719", "\\ua71a", "\\ua71b", "\\ua71c",
    "\\ua71d", "\\ua71e", "\\ua71f", "\\ua720", "\\ua721", "\\ua770",
    "\\ua788", "\\ua789", "\\ua78a", "\\ua7f1", "\\ua7f2", "\\ua7f3",
    "\\ua7f4", "\\ua7f8", "\\ua7f9", "\\ua802", "\\ua806", "\\ua80b",
    "\\ua825", "\\ua826", "\\ua82c", "\\ua8c4", "\\ua8c5", "\\ua8e0",
    "\\ua8e1", "\\ua8e2", "\\ua8e3", "\\ua8e4", "\\ua8e5", "\\ua8e6",
    "\\ua8e7", "\\ua8e8", "\\ua8e9", "\\ua8ea", "\\ua8eb", "\\ua8ec",
    "\\ua8ed", "\\ua8ee", "\\ua8ef", "\\ua8f0", "\\ua8f1", "\\ua8ff",
    "\\ua926", "\\ua927", "\\ua928", "\\ua929", "\\ua92a", "\\ua92b",
    "\\ua92c", "\\ua92d", "\\ua947", "\\ua948", "\\ua949", "\\ua94a",
    "\\ua94b", "\\ua94c", "\\ua94d", "\\ua94e", "\\ua94f", "\\ua950",
    "\\ua951", "\\ua980", "\\ua981", "\\ua982", "\\ua9b3", "\\ua9b6",
    "\\ua9b7", "\\ua9b8", "\\ua9b9", "\\ua9bc", "\\ua9bd", "\\ua9cf",
    "\\ua9e5", "\\ua9e6", "\\uaa29", "\\uaa2a", "\\uaa2b", "\\uaa2c",
    "\\uaa2d", "\\uaa2e", "\\uaa31", "\\uaa32", "\\uaa35", "\\uaa36",
    "\\uaa43", "\\uaa4c", "\\uaa70", "\\uaa7c", "\\uaab0", "\\uaab2",
    "\\uaab3", "\\uaab4", "\\uaab7", "\\uaab8", "\\uaabe", "\\uaabf",
    "\\uaac1", "\\uaadd", "\\uaaec", "\\uaaed", "\\uaaf3", "\\uaaf4",
    "\\uaaf6", "\\uab5b", "\\uab5c", "\\uab5d", "\\uab5e", "\\uab5f",
    "\\uab69", "\\uab6a", "\\uab6b", "\\uabe5", "\\uabe8", "\\uabed",
    "\\ufb1e", "\\ufbb2", "\\ufbb3", "\\ufbb4", "\\ufbb5", "\\ufbb6",
    "\\ufbb7", "\\ufbb8", "\\ufbb9", "\\ufbba", "\\ufbbb", "\\ufbbc",
    "\\ufbbd", "\\ufbbe", "\\ufbbf", "\\ufbc0", "\\ufbc1", "\\ufbc2",
    "\\ufe00", "\\ufe01", "\\ufe02", "\\ufe03", "\\ufe04", "\\ufe05",
    "\\ufe06", "\\ufe07", "\\ufe08", "\\ufe09", "\\ufe0a", "\\ufe0b",
    "\\ufe0c", "\\ufe0d", "\\ufe0e", "\\ufe0f", "\\ufe13", "\\ufe20",
    "\\ufe21", "\\ufe22", "\\ufe23", "\\ufe24", "\\ufe25", "\\ufe26",
    "\\ufe27", "\\ufe28", "\\ufe29", "\\ufe2a", "\\ufe2b", "\\ufe2c",
    "\\ufe2d", "\\ufe2e", "\\ufe2f", "\\ufe52", "\\ufe55", "\\ufeff",
    "\\uff07", "\\uff0e", "\\uff1a", "\\uff3e", "\\uff40", "\\uff70",
    "\\uff9e", "\\uff9f", "\\uffe3", "\\ufff9", "\\ufffa", "\\ufffb"
  }

\* the same, surrogate pairs
CaseIgnorablePairs ==
  {
    <<"\\ud800", "\\uddfd">>, <<"\\ud800", "\\udee0">>,
    <<"\\ud800", "\\udf76">>, <<"\\ud800", "\\udf77">>,
    <<"\\ud800", "\\udf78">>, <<"\\ud800", "\\udf79">>,
    <<"\\ud800", "\\udf7a">>, <<"\\ud801", "\\udf80">>,
    <<"\\ud801", "\\udf81">>, <<"\\ud801", "\\udf82">>,
    <<"\\ud801", "\\udf83">>, <<"\\ud801", "\\udf84">>,
    <<"\\ud801", "\\udf85">>, <<"\\ud801", "\\udf87">>,
    <<"\\ud801", "\\udf88">>, <<"\\ud801", "\\udf89">>,
    <<"\\ud801", "\\udf8a">>, <<"\\ud801", "\\udf8b">>,
    <<"\\ud801", "\\udf8c">>, <<"\\ud801", "\\udf8d">>,
    <<"\\ud801", "\\udf8e">>, <<"\\ud801", "\\udf8f">>,
    <<"\\ud801", "\\udf90">>, <<"\\ud801", "\\udf91">>,
    <<"\\ud801", "\\udf92">>, <<"\\ud801", "\\udf93">>,
    <<"\\ud801", "\\udf94">>, <<"\\ud801", "\\udf95">>,
    <<"\\ud801", "\\udf96">>, <<"\\ud801", "\\udf97">>,
    <<"\\ud801", "\\udf98">>, <<"\\ud801", "\\udf99">>,
    <<"\\ud801", "\\udf9a">>, <<"\\ud801", "\\udf9b">>,
    <<"\\ud801", "\\udf9c">>, <<"\\ud801", "\\udf9d">>,
    <<"\\ud801", "\\udf9e">>, <<"\\ud801", "\\udf9f">>,
    <<"\\ud801", "\\udfa0">>, <<"\\ud801", "\\udfa1">>,
    <<"\\ud801", "\\udfa2">>, <<"\\ud801", "\\udfa3">>,
    <<"\\ud801", "\\udfa4">>, <<"\\ud801", "\\udfa5">>,
    <<"\\ud801", "\\udfa6">>, <<"\\ud801", "\\udfa7">>,
    <<"\\ud801", "\\udfa8">>, <<"\\ud801", "\\udfa9">>,
    <<"\\ud801", "\\udfaa">>, <<"\\ud801", "\\udfab">>,
    <<"\\ud801", "\\udfac">>, <<"\\ud801", "\\udfad">>,
    <<"\\ud801", "\\udfae">>, <<"\\ud801", "\\udfaf">>,
    <<"\\ud801", "\\udfb0">>, <<"\\ud801", "\\udfb2">>,
    <<"\\ud801", "\\udfb3">>, <<"\\ud801", "\\udfb4">>,
    <<"\\ud801", "\\udfb5">>, <<"\\ud801", "\\udfb6">>,
    <<"\\ud801", "\\udfb7">>, <<"\\ud801", "\\udfb8">>,
    <<"\\ud801", "\\udfb9">>, <<"\\ud801", "\\udfba">>,
    <<"\\ud802", "\\ude01">>, <<"\\ud802", "\\ude02">>,
    <<"\\ud802", "\\ude03">>, <<"\\ud802", "\\ude05">>,
    <<"\\ud802", "\\ude06">>, <<"\\ud802", "\\ude0c">>,
    <<"\\ud802", "\\ude0d">>, <<"\\ud802", "\\ude0e">>,
    <<"\\ud802", "\\ude0f">>, <<"\\ud802", "\\ude38">>,
    <<"\\ud802", "\\ude39">>, <<"\\ud802", "\\ude3a">>,
    <<"\\ud802", "\\ude3f">>, <<"\\ud802", "\\udee5">>,
    <<"\\ud802", "\\udee6">>, <<"\\ud803", "\\udd24">>,
    <<"\\ud803", "\\udd25">>, <<"\\ud803", "\\udd26">>,
    <<"\\ud803", "\\udd27">>, <<"\\ud803", "\\udd4e">>,
    <<"\\ud803", "\\udd69">>, <<"\\ud803", "\\udd6a">>,
    <<"\\ud803", "\\udd6b">>, <<"\\ud803", "\\udd6c">>,
    <<"\\ud803", "\\udd6d">>, <<"\\ud803", "\\udd6f">>,
    <<"\\ud803", "\\udeab">>, <<"\\ud803", "\\udeac">>,
    <<"\\ud803", "\\udec5">>, <<"\\ud803", "\\udefa">>,
    <<"\\ud803", "\\udefb">>, <<"\\ud803", "\\udefc">>,
    <<"\\ud803", "\\udefd">>, <<"\\ud803", "\\udefe">>,
    <<"\\ud803", "\\udeff">>, <<"\\ud803", "\\udf46">>,
    <<"\\ud803", "\\udf47">>, <<"\\ud803", "\\udf48">>,
    <<"\\ud803", "\\udf49">>, <<"\\ud803", "\\udf4a">>,
    <<"\\ud803", "\\udf4b">>, <<"\\ud803", "\\udf4c">>,
    <<"\\ud803", "\\udf4d">>, <<"\\ud803", "\\udf4e">>,
    <<"\\ud803", "\\udf4f">>, <<"\\ud803", "\\udf50">>,
    <<"\\ud803", "\\udf82">>, <<"\\ud803", "\\udf83">>,
    <<"\\ud803", "\\udf84">>, <<"\\ud803", "\\udf85">>,
    <<"\\ud804", "\\udc01">>, <<"\\ud804", "\\udc38">>,
    <<"\\ud804", "\\udc39">>, <<"\\ud804", "\\udc3a">>,
    <<"\\ud804", "\\udc3b">>, <<"\\ud804", "\\udc3c">>,
    <<"\\ud804", "\\udc3d">>, <<"\\ud804", "\\udc3e">>,
    <<"\\ud804", "\\udc3f">>, <<"\\ud804", "\\udc40">>,
    <<"\\ud804", "\\udc41">>, <<"\\ud804", "\\udc42">>,
    <<"\\ud804", "\\udc43">>, <<"\\ud804", "\\udc44">>,
    <<"\\ud804", "\\udc45">>, <<"\\ud804", "\\udc46">>,
    <<"\\ud804", "\\udc70">>, <<"\\ud804", "\\udc73">>,
    <<"\\ud804", "\\udc74">>, <<"\\ud804", "\\udc7f">>,
    <<"\\ud804", "\\udc80">>, <<"\\ud804", "\\udc81">>,
    <<"\\ud804", "\\udcb3">>, <<"\\ud804", "\\udcb4">>,
    <<"\\ud804", "\\udcb5">>, <<"\\ud804", "\\udcb6">>,
    <<"\\ud804", "\\udcb9">>, <<"\\ud804", "\\udcba">>,
    <<"\\ud804", "\\udcbd">>, <<"\\ud804", "\\udcc2">>,
    <<"\\ud804", "\\udccd">>, <<"\\ud804", "\\udd00">>,
    <<"\\ud804", "\\udd01">>, <<"\\ud804", "\\udd02">>,
    <<"\\ud804", "\\udd27">>, <<"\\ud804", "\\udd28">>,
    <<"\\ud804", "\\udd29">>, <<"\\ud804", "\\udd2a">>,
    <<"\\ud804", "\\udd2b">>, <<"\\ud804", "\\udd2d">>,
    <<"\\ud804", "\\udd2e">>, <<"\\ud804", "\\udd2f">>,
    <<"\\ud804", "\\udd30">>, <<"\\ud804", "\\udd31">>,
    <<"\\ud804", "\\udd32">>, <<"\\ud804", "\\udd33">>,
    <<"\\ud804", "\\udd34">>, <<"\\ud804", "\\udd73">>,
    <<"\\ud804", "\\udd80">>, <<"\\ud804", "\\udd81">>,
    <<"\\ud804", "\\uddb6">>, <<"\\ud804", "\\uddb7">>,
    <<"\\ud804", "\\uddb8">>, <<"\\ud804", "\\uddb9">>,
    <<"\\ud804", "\\uddba">>, <<"\\ud804", "\\uddbb">>,
    <<"\\ud804", "\\uddbc">>, <<"\\ud804", "\\uddbd">>,
    <<"\\ud804", "\\uddbe">>, <<"\\ud804", "\\uddc9">>,
    <<"\\ud804", "\\uddca">>, <<"\\ud804", "\\uddcb">>,
    <<"\\ud804", "\\uddcc">>, <<"\\ud804", "\\uddcf">>,
    <<"\\ud804", "\\ude2f">>, <<"\\ud804", "\\ude30">>,
    <<"\\ud804", "\\ude31">>, <<"\\ud804", "\\ude34">>,
    <<"\\ud804", "\\ude36">>, <<"\\ud804", "\\ude37">>,
    <<"\\ud804", "\\ude3e">>, <<"\\ud804", "\\ude41">>,
    <<"\\ud804", "\\udedf">>, <<"\\ud804", "\\udee3">>,
    <<"\\ud804", "\\udee4">>, <<"\\ud804", "\\udee5">>,
    <<"\\ud804", "\\udee6">>, <<"\\ud804", "\\udee7">>,
    <<"\\ud804", "\\udee8">>, <<"\\ud804", "\\udee9">>,
    <<"\\ud804", "\\udeea">>, <<"\\ud804", "\\udf00">>,
    <<"\\ud804", "\\udf01">>, <<"\\ud804", "\\udf3b">>,
    <<"\\ud804", "\\udf3c">>, <<"\\ud804", "\\udf40">>,
    <<"\\ud804", "\\udf66">>, <<"\\ud804", "\\udf67">>,
    <<"\\ud804", "\\udf68">>, <<"\\ud804", "\\udf69">>,
    <<"\\ud804", "\\udf6a">>, <<"\\ud804", "\\udf6b">>,
    <<"\\ud804", "\\udf6c">>, <<"\\ud804", "\\udf70">>,
    <<"\\ud804", "\\udf71">>, <<"\\ud804", "\\udf72">>,
    <<"\\ud804", "\\udf73">>, <<"\\ud804", "\\udf74">>,
    <<"\\ud804", "\\udfbb">>, <<"\\ud804", "\\udfbc">>,
    <<"\\ud804", "\\udfbd">>, <<"\\ud804", "\\udfbe">>,
    <<"\\ud804", "\\udfbf">>, <<"\\ud804", "\\udfc0">>,
    <<"\\ud804", "\\udfce">>, <<"\\ud804", "\\udfd0">>,
    <<"\\ud804", "\\udfd2">>, <<"\\ud804", "\\udfe1">>,
    <<"\\ud804", "\\udfe2">>, <<"\\ud805", "\\udc38">>,
    <<"\\ud805", "\\udc39">>, <<"\\ud805", "\\udc3a">>,
    <<"\\ud805", "\\udc3b">>, <<"\\ud805", "\\udc3c">>,
    <<"\\ud805", "\\udc3d">>, <<"\\ud805", "\\udc3e">>,
    <<"\\ud805", "\\udc3f">>, <<"\\ud805", "\\udc42">>,
    <<"\\ud805", "\\udc43">>, <<"\\ud805", "\\udc44">>,
    <<"\\ud805", "\\udc46">>, <<"\\ud805", "\\udc5e">>,
    <<"\\ud805", "\\udcb3">>, <<"\\ud805", "\\udcb4">>,
    <<"\\ud805", "\\udcb5">>, <<"\\ud805", "\\udcb6">>,
    <<"\\ud805", "\\udcb7">>, <<"\\ud805", "\\udcb8">>,
    <<"\\ud805", "\\udcba">>, <<"\\ud805", "\\udcbf">>,
    <<"\\ud805", "\\udcc0">>, <<"\\ud805", "\\udcc2">>,
    <<"\\ud805", "\\udcc3">>, <<"\\ud805", "\\uddb2">>,
    <<"\\ud805", "\\uddb3">>, <<"\\ud805", "\\uddb4">>,
    <<"\\ud805", "\\uddb5">>, <<"\\ud805", "\\uddbc">>,
    <<"\\ud805", "\\uddbd">>, <<"\\ud805", "\\uddbf">>,
    <<"\\ud805", "\\uddc0">>, <<"\\ud805", "\\udddc">>,
    <<"\\ud805", "\\udddd">>, <<"\\ud805", "\\ude33">>,
    <<"\\ud805", "\\ude34">>, <<"\\ud805", "\\ude35">>,
    <<"\\ud805", "\\ude36">>, <<"\\ud805", "\\ude37">>,
    <<"\\ud805", "\\ude38">>, <<"\\ud805", "\\ude39">>,
    <<"\\ud805", "\\ude3a">>, <<"\\ud805", "\\ude3d">>,
    <<"\\ud805", "\\ude3f">>, <<"\\ud805", "\\ude40">>,
    <<"\\ud805", "\\udeab">>, <<"\\ud805", "\\udead">>,
    <<"\\ud805", "\\udeb0">>, <<"\\ud805", "\\udeb1">>,
    <<"\\ud805", "\\udeb2">>, <<"\\ud805", "\\udeb3">>,
    <<"\\ud805", "\\udeb4">>, <<"\\ud805", "\\udeb5">>,
    <<"\\ud805", "\\udeb7">>, <<"\\ud805", "\\udf1d">>,
    <<"\\ud805", "\\udf1f">>, <<"\\ud805", "\\udf22">>,
    <<"\\ud805", "\\udf23">>, <<"\\ud805", "\\udf24">>,
    <<"\\ud805", "\\udf25">>, <<"\\ud805", "\\udf27">>,
    <<"\\ud805", "\\udf28">>, <<"\\ud805", "\\udf29">>,
    <<"\\ud805", "\\udf2a">>, <<"\\ud805", "\\udf2b">>,
    <<"\\ud806", "\\udc2f">>, <<"\\ud806", "\\udc30">>,
    <<"\\ud806", "\\udc31">>, <<"\\ud806", "\\udc32">>,
    <<"\\ud806", "\\udc33">>, <<"\\ud806", "\\udc34">>,
    <<"\\ud806", "\\udc35">>, <<"\\ud806", "\\udc36">>,
    <<"\\ud806", "\\udc37">>, <<"\\ud806", "\\udc39">>,
    <<"\\ud806", "\\udc3a">>, <<"\\ud806", "\\udd3b">>,
    <<"\\ud806", "\\udd3c">>, <<"\\ud806", "\\udd3e">>,
    <<"\\ud806", "\\udd43">>, <<"\\ud806", "\\uddd4">>,
    <<"\\ud806", "\\uddd5">>, <<"\\ud806", "\\uddd6">>,
    <<"\\ud806", "\\uddd7">>, <<"\\ud806", "\\uddda">>,
    <<"\\ud806", "\\udddb">>, <<"\\ud806", "\\udde0">>,
    <<"\\ud806", "\\ude01">>, <<"\\ud806", "\\ude02">>,
    <<"\\ud806", "\\ude03">>, <<"\\ud806", "\\ude04">>,
    <<"\\ud806", "\\ude05">>, <<"\\ud806", "\\ude06">>,
    <<"\\ud806", "\\ude07">>, <<"\\ud806", "\\ude08">>,
    <<"\\ud806", "\\ude09">>, <<"\\ud806", "\\ude0a">>,
    <<"\\ud806", "\\ude33">>, <<"\\ud806", "\\ude34">>,
    <<"\\ud806", "\\ude35">>, <<"\\ud806", "\\ude36">>,
    <<"\\ud806", "\\ude37">>, <<"\\ud806", "\\ude38">>,
    <<"\\ud806", "\\ude3b">>, <<"\\ud806", "\\ude3c">>,
    <<"\\ud806", "\\ude3d">>, <<"\\ud806", "\\ude3e">>,
    <<"\\ud806", "\\ude47">>, <<"\\ud806", "\\ude51">>,
    <<"\\ud806", "\\ude52">>, <<"\\ud806", "\\ude53">>,
    <<"\\ud806", "\\ude54">>, <<"\\ud806", "\\ude55">>,
    <<"\\ud806", "\\ude56">>, <<"\\ud806", "\\ude59">>,
    <<"\\ud806", "\\ude5a">>, <<"\\ud806", "\\ude5b">>,
    <<"\\ud806", "\\ude8a">>, <<"\\ud806", "\\ude8b">>,
    <<"\\ud806", "\\ude8c">>, <<"\\ud806", "\\ude8d">>,
    <<"\\ud806", "\\ude8e">>, <<"\\ud806", "\\ude8f">>,
    <<"\\ud806", "\\ude90">>, <<"\\ud806", "\\ude91">>,
    <<"\\ud806", "\\ude92">>, <<"\\ud806", "\\ude93">>,
    <<"\\ud806", "\\ude94">>, <<"\\ud806", "\\ude95">>,
    <<"\\ud806", "\\ude96">>, <<"\\ud806", "\\ude98">>,
    <<"\\ud806", "\\ude99">>, <<"\\ud806", "\\udf60">>,
    <<"\\ud806", "\\udf62">>, <<"\\ud806", "\\udf63">>,
    <<"\\ud806", "\\udf64">>, <<"\\ud806", "\\udf66">>,
    <<"\\ud807", "\\udc30">>, <<"\\ud807", "\\udc31">>,
    <<"\\ud807", "\\udc32">>, <<"\\ud807", "\\udc33">>,
    <<"\\ud807", "\\udc34">>, <<"\\ud807", "\\udc35">>,
    <<"\\ud807", "\\udc36">>, <<"\\ud807", "\\udc38">>,
    <<"\\ud807", "\\udc39">>, <<"\\ud807", "\\udc3a">>,
    <<"\\ud807", "\\udc3b">>, <<"\\ud807", "\\udc3c">>,
    <<"\\ud807", "\\udc3d">>, <<"\\ud807", "\\udc3f">>,
    <<"\\ud807", "\\udc92">>, <<"\\ud807", "\\udc93">>,
    <<"\\ud807", "\\udc94">>, <<"\\ud807", "\\udc95">>,
    <<"\\ud807", "\\udc96">>, <<"\\ud807", "\\udc97">>,
    <<"\\ud807", "\\udc98">>, <<"\\ud807", "\\udc99">>,
    <<"\\ud807", "\\udc9a">>, <<"\\ud807", "\\udc9b">>,
    <<"\\ud807", "\\udc9c">>, <<"\\ud807", "\\udc9d">>,
    <<"\\ud807", "\\udc9e">>, <<"\\ud807", "\\udc9f">>,
    <<"\\ud807", "\\udca0">>, <<"\\ud807", "\\udca1">>,
    <<"\\ud807", "\\udca2">>, <<"\\ud807", "\\udca3">>,
    <<"\\ud807", "\\udca4">>, <<"\\ud807", "\\udca5">>,
    <<"\\ud807", "\\udca6">>, <<"\\ud807", "\\udca7">>,
    <<"\\ud807", "\\udcaa">>, <<"\\ud807", "\\udcab">>,
    <<"\\ud807", "\\udcac">>, <<"\\ud807", "\\udcad">>,
    <<"\\ud807", "\\udcae">>, <<"\\ud807", "\\udcaf">>,
    <<"\\ud807", "\\udcb0">>, <<"\\ud807", "\\udcb2">>,
    <<"\\ud807", "\\udcb3">>, <<"\\ud807", "\\udcb5">>,
    <<"\\ud807", "\\udcb6">>, <<"\\ud807", "\\udd31">>,
    <<"\\ud807", "\\udd32">>, <<"\\ud807", "\\udd33">>,
    <<"\\ud807", "\\udd34">>, <<"\\ud807", "\\udd35">>,
    <<"\\ud807", "\\udd36">>, <<"\\ud807", "\\udd3a">>,
    <<"\\ud807", "\\udd3c">>, <<"\\ud807", "\\udd3d">>,
    <<"\\ud807", "\\udd3f">>, <<"\\ud807", "\\udd40">>,
    <<"\\ud807", "\\udd41">>, <<"\\ud807", "\\udd42">>,
    <<"\\ud807", "\\udd43">>, <<"\\ud807", "\\udd44">>,
    <<"\\ud807", "\\udd45">>, <<"\\ud807", "\\udd47">>,
    <<"\\ud807", "\\udd90">>, <<"\\ud807", "\\udd91">>,
    <<"\\ud807", "\\udd95">>, <<"\\ud807", "\\udd97">>,
    <<"\\ud807", "\\uddd9">>, <<"\\ud807", "\\udef3">>,
    <<"\\ud807", "\\udef4">>, <<"\\ud807", "\\udf00">>,
    <<"\\ud807", "\\udf01">>, <<"\\ud807", "\\udf36">>,
    <<"\\ud807", "\\udf37">>, <<"\\ud807", "\\udf38">>,
    <<"\\ud807", "\\udf39">>, <<"\\ud807", "\\udf3a">>,
    <<"\\ud807", "\\udf40">>, <<"\\ud807", "\\udf42">>,
    <<"\\ud807", "\\udf5a">>, <<"\\ud80d", "\\udc30">>,
    <<"\\ud80d", "\\udc31">>, <<"\\ud80d", "\\udc32">>,
    <<"\\ud80d", "\\udc33">>, <<"\\ud80d", "\\udc34">>,
    <<"\\ud80d", "\\udc35">>, <<"\\ud80d", "\\udc36">>,
    <<"\\ud80d", "\\udc37">>, <<"\\ud80d", "\\udc38">>,
    <<"\\ud80d", "\\udc39">>, <<"\\ud80d", "\\udc3a">>,
    <<"\\ud80d", "\\udc3b">>, <<"\\ud80d", "\\udc3c">>,
    <<"\\ud80d", "\\udc3d">>, <<"\\ud80d", "\\udc3e">>,
    <<"\\ud80d", "\\udc3f">>, <<"\\ud80d", "\\udc40">>,
    <<"\\ud80d", "\\udc47">>, <<"\\ud80d", "\\udc48">>,
    <<"\\ud80d", "\\udc49">>, <<"\\ud80d", "\\udc4a">>,
    <<"\\ud80d", "\\udc4b">>, <<"\\ud80d", "\\udc4c">>,
    <<"\\ud80d", "\\udc4d">>, <<"\\ud80d", "\\udc4e">>,
    <<"\\ud80d", "\\udc4f">>, <<"\\ud80d", "\\udc50">>,
    <<"\\ud80d", "\\udc51">>, <<"\\ud80d", "\\udc52">>,
    <<"\\ud80d", "\\udc53">>, <<"\\ud80d", "\\udc54">>,
    <<"\\ud80d", "\\udc55">>, <<"\\ud818", "\\udd1e">>,
    <<"\\ud818", "\\udd1f">>, <<"\\ud818", "\\udd20">>,
    <<"\\ud818", "\\udd21">>, <<"\\ud818", "\\udd22">>,
    <<"\\ud818", "\\udd23">>, <<"\\ud818", "\\udd24">>,
    <<"\\ud818", "\\udd25">>, <<"\\ud818", "\\udd26">>,
    <<"\\ud818", "\\udd27">>, <<"\\ud818", "\\udd28">>,
    <<"\\ud818", "\\udd29">>, <<"\\ud818", "\\udd2d">>,
    <<"\\ud818", "\\udd2e">>, <<"\\ud818", "\\udd2f">>,
    <<"\\ud81a", "\\udef0">>, <<"\\ud81a", "\\udef1">>,
    <<"\\ud81a", "\\udef2">>, <<"\\ud81a", "\\udef3">>,
    <<"\\ud81a", "\\udef4">>, <<"\\ud81a", "\\udf30">>,
    <<"\\ud81a", "\\udf31">>, <<"\\ud81a", "\\udf32">>,
    <<"\\ud81a", "\\udf33">>, <<"\\ud81a", "\\udf34">>,
    <<"\\ud81a", "\\udf35">>, <<"\\ud81a", "\\udf36">>,
    <<"\\ud81a", "\\udf40">>, <<"\\ud81a", "\\udf41">>,
    <<"\\ud81a", "\\udf42">>, <<"\\ud81a", "\\udf43">>,
    <<"\\ud81b", "\\udd40">>, <<"\\ud81b", "\\udd41">>,
    <<"\\ud81b", "\\udd42">>, <<"\\ud81b", "\\udd6b">>,
    <<"\\ud81b", "\\udd6c">>, <<"\\ud81b", "\\udf4f">>,
    <<"\\ud81b", "\\udf8f">>, <<"\\ud81b", "\\udf90">>,
    <<"\\ud81b", "\\udf91">>, <<"\\ud81b", "\\udf92">>,
    <<"\\ud81b", "\\udf93">>, <<"\\ud81b", "\\udf94">>,
    <<"\\ud81b", "\\udf95">>, <<"\\ud81b", "\\udf96">>,
    <<"\\ud81b", "\\udf97">>, <<"\\ud81b", "\\udf98">>,
    <<"\\ud81b", "\\udf99">>, <<"\\ud81b", "\\udf9a">>,
    <<"\\ud81b", "\\udf9b">>, <<"\\ud81b", "\\udf9c">>,
    <<"\\ud81b", "\\udf9d">>, <<"\\ud81b", "\\udf9e">>,
    <<"\\ud81b", "\\udf9f">>, <<"\\ud81b", "\\udfe0">>,
    <<"\\ud81b", "\\udfe1">>, <<"\\ud81b", "\\udfe3">>,
    <<"\\ud81b", "\\udfe4">>, <<"\\ud81b", "\\udff2">>,
    <<"\\ud81b", "\\udff3">>, <<"\\ud82b", "\\udff0">>,
    <<"\\ud82b", "\\udff1">>, <<"\\ud82b", "\\udff2">>,
    <<"\\ud82b", "\\udff3">>, <<"\\ud82b", "\\udff5">>,
    <<"\\ud82b", "\\udff6">>, <<"\\ud82b", "\\udff7">>,
    <<"\\ud82b", "\\udff8">>, <<"\\ud82b", "\\udff9">>,
    <<"\\ud82b", "\\udffa">>, <<"\\ud82b", "\\udffb">>,
    <<"\\ud82b", "\\udffd">>, <<"\\ud82b", "\\udffe">>,
    <<"\\ud82f", "\\udc9d">>, <<"\\ud82f", "\\udc9e">>,
    <<"\\ud82f", "\\udca0">>, <<"\\ud82f", "\\udca1">>,
    <<"\\ud82f", "\\udca2">>, <<"\\ud82f", "\\udca3">>,
    <<"\\ud833", "\\udf00">>, <<"\\ud833", "\\udf01">>,
    <<"\\ud833", "\\udf02">>, <<"\\ud833", "\\udf03">>,
    <<"\\ud833", "\\udf04">>, <<"\\ud833", "\\udf05">>,
    <<"\\ud833", "\\udf06">>, <<"\\ud833", "\\udf07">>,
    <<"\\ud833", "\\udf08">>, <<"\\ud833", "\\udf09">>,
    <<"\\ud833", "\\udf0a">>, <<"\\ud833", "\\udf0b">>,
    <<"\\ud833", "\\udf0c">>, <<"\\ud833", "\\udf0d">>,
    <<"\\ud833", "\\udf0e">>, <<"\\ud833", "\\udf0f">>,
    <<"\\ud833", "\\udf10">>, <<"\\ud833", "\\udf11">>,
    <<"\\ud833", "\\udf12">>, <<"\\ud833", "\\udf13">>,
    <<"\\ud833", "\\udf14">>, <<"\\ud833", "\\udf15">>,
    <<"\\ud833", "\\udf16">>, <<"\\ud833", "\\udf17">>,
    <<"\\ud833", "\\udf18">>, <<"\\ud833", "\\udf19">>,
    <<"\\ud833", "\\udf1a">>, <<"\\ud833", "\\udf1b">>,
    <<"\\ud833", "\\udf1c">>, <<"\\ud833", "\\udf1d">>,
    <<"\\ud833", "\\udf1e">>, <<"\\ud833", "\\udf1f">>,
    <<"\\ud833", "\\udf20">>, <<"\\ud833", "\\udf21">>,
    <<"\\ud833", "\\udf22">>, <<"\\ud833", "\\udf23">>,
    <<"\\ud833", "\\udf24">>, <<"\\ud833", "\\udf25">>,
    <<"\\ud833", "\\udf26">>, <<"\\ud833", "\\udf27">>,
    <<"\\ud833", "\\udf28">>, <<"\\ud833", "\\udf29">>,
    <<"\\ud833", "\\udf2a">>, <<"\\ud833", "\\udf2b">>,
    <<"\\ud833", "\\udf2c">>, <<"\\ud833", "\\udf2d">>,
    <<"\\ud833", "\\udf30">>, <<"\\ud833", "\\udf31">>,
    <<"\\ud833", "\\udf32">>, <<"\\ud833", "\\udf33">>,
    <<"\\ud833", "\\udf34">>, <<"\\ud833", "\\udf35">>,
    <<"\\ud833", "\\udf36">>, <<"\\ud833", "\\udf37">>,
    <<"\\ud833", "\\udf38">>, <<"\\ud833", "\\udf39">>,
    <<"\\ud833", "\\udf3a">>, <<"\\ud833", "\\udf3b">>,
    <<"\\ud833", "\\udf3c">>, <<"\\ud833", "\\udf3d">>,
    <<"\\ud833", "\\udf3e">>, <<"\\ud833", "\\udf3f">>,
    <<"\\ud833", "\\udf40">>, <<"\\ud833", "\\udf41">>,
    <<"\\ud833", "\\udf42">>, <<"\\ud833", "\\udf43">>,
    <<"\\ud833", "\\udf44">>, <<"\\ud833", "\\udf45">>,
    <<"\\ud833", "\\udf46">>, <<"\\ud834", "\\udd67">>,
    <<"\\ud834", "\\udd68">>, <<"\\ud834", "\\udd69">>,
    <<"\\ud834", "\\udd73">>, <<"\\ud834", "\\udd74">>,
    <<"\\ud834", "\\udd75">>, <<"\\ud834", "\\udd76">>,
    <<"\\ud834", "\\udd77">>, <<"\\ud834", "\\udd78">>,
    <<"\\ud834", "\\udd79">>, <<"\\ud834", "\\udd7a">>,
    <<"\\ud834", "\\udd7b">>, <<"\\ud834", "\\udd7c">>,
    <<"\\ud834", "\\udd7d">>, <<"\\ud834", "\\udd7e">>,
    <<"\\ud834", "\\udd7f">>, <<"\\ud834", "\\udd80">>,
    <<"\\ud834", "\\udd81">>, <<"\\ud834", "\\udd82">>,
    <<"\\ud834", "\\udd85">>, <<"\\ud834", "\\udd86">>,
    <<"\\ud834", "\\udd87">>, <<"\\ud834", "\\udd88">>,
    <<"\\ud834", "\\udd89">>, <<"\\ud834", "\\udd8a">>,
    <<"\\ud834", "\\udd8b">>, <<"\\ud834", "\\uddaa">>,
    <<"\\ud834", "\\uddab">>, <<"\\ud834", "\\uddac">>,
    <<"\\ud834", "\\uddad">>, <<"\\ud834", "\\ude42">>,
    <<"\\ud834", "\\ude43">>, <<"\\ud834", "\\ude44">>,
    <<"\\ud836", "\\ude00">>, <<"\\ud836", "\\ude01">>,
    <<"\\ud836", "\\ude02">>, <<"\\ud836", "\\ude03">>,
    <<"\\ud836", "\\ude04">>, <<"\\ud836", "\\ude05">>,
    <<"\\ud836", "\\ude06">>, <<"\\ud836", "\\ude07">>,
    <<"\\ud836", "\\ude08">>, <<"\\ud836", "\\ude09">>,
    <<"\\ud836", "\\ude0a">>, <<"\\ud836", "\\ude0b">>,
    <<"\\ud836", "\\ude0c">>, <<"\\ud836", "\\ude0d">>,
    <<"\\ud836", "\\ude0e">>, <<"\\ud836", "\\ude0f">>,
    <<"\\ud836", "\\ude10">>, <<"\\ud836", "\\ude11">>,
    <<"\\ud836", "\\ude12">>, <<"\\ud836", "\\ude13">>,
    <<"\\ud836", "\\ude14">>, <<"\\ud836", "\\ude15">>,
    <<"\\ud836", "\\ude16">>, <<"\\ud836", "\\ude17">>,
    <<"\\ud836", "\\ude18">>, <<"\\ud836", "\\ude19">>,
    <<"\\ud836", "\\ude1a">>, <<"\\ud836", "\\ude1b">>,
    <<"\\ud836", "\\ude1c">>, <<"\\ud836", "\\ude1d">>,
    <<"\\ud836", "\\ude1e">>, <<"\\ud836", "\\ude1f">>,
    <<"\\ud836", "\\ude20">>, <<"\\ud836", "\\ude21">>,
    <<"\\ud836", "\\ude22">>, <<"\\ud836", "\\ude23">>,
    <<"\\ud836", "\\ude24">>, <<"\\ud836", "\\ude25">>,
    <<"\\ud836", "\\ude26">>, <<"\\ud836", "\\ude27">>,
    <<"\\ud836", "\\ude28">>, <<"\\ud836", "\\ude29">>,
    <<"\\ud836", "\\ude2a">>, <<"\\ud836", "\\ude2b">>,
    <<"\\ud836", "\\ude2c">>, <<"\\ud836", "\\ude2d">>,
    <<"\\ud836", "\\ude2e">>, <<"\\ud836", "\\ude2f">>,
    <<"\\ud836", "\\ude30">>, <<"\\ud836", "\\ude31">>,
    <<"\\ud836", "\\ude32">>, <<"\\ud836", "\\ude33">>,
    <<"\\ud836", "\\ude34">>, <<"\\ud836", "\\ude35">>,
    <<"\\ud836", "\\ude36">>, <<"\\ud836", "\\ude3b">>,
    <<"\\ud836", "\\ude3c">>, <<"\\ud836", "\\ude3d">>,
    <<"\\ud836", "\\ude3e">>, <<"\\ud836", "\\ude3f">>,
    <<"\\ud836", "\\ude40">>, <<"\\ud836", "\\ude41">>,
    <<"\\ud836", "\\ude42">>, <<"\\ud836", "\\ude43">>,
    <<"\\ud836", "\\ude44">>, <<"\\ud836", "\\ude45">>,
    <<"\\ud836", "\\ude46">>, <<"\\ud836", "\\ude47">>,
    <<"\\ud836", "\\ude48">>, <<"\\ud836", "\\ude49">>,
    <<"\\ud836", "\\ude4a">>, <<"\\ud836", "\\ude4b">>,
    <<"\\ud836", "\\ude4c">>, <<"\\ud836", "\\ude4d">>,
    <<"\\ud836", "\\ude4e">>, <<"\\ud836", "\\ude4f">>,
    <<"\\ud836", "\\ude50">>, <<"\\ud836", "\\ude51">>,
    <<"\\ud836", "\\ude52">>, <<"\\ud836", "\\ude53">>,
    <<"\\ud836", "\\ude54">>, <<"\\ud836", "\\ude55">>,
    <<"\\ud836", "\\ude56">>, <<"\\ud836", "\\ude57">>,
    <<"\\ud836", "\\ude58">>, <<"\\ud836", "\\ude59">>,
    <<"\\ud836", "\\ude5a">>, <<"\\ud836", "\\ude5b">>,
    <<"\\ud836", "\\ude5c">>, <<"\\ud836", "\\ude5d">>,
    <<"\\ud836", "\\ude5e">>, <<"\\ud836", "\\ude5f">>,
    <<"\\ud836", "\\ude60">>, <<"\\ud836", "\\ude61">>,
    <<"\\ud836", "\\ude62">>, <<"\\ud836", "\\ude63">>,
    <<"\\ud836", "\\ude64">>, <<"\\ud836", "\\ude65">>,
    <<"\\ud836", "\\ude66">>, <<"\\ud836", "\\ude67">>,
    <<"\\ud836", "\\ude68">>, <<"\\ud836", "\\ude69">>,
    <<"\\ud836", "\\ude6a">>, <<"\\ud836", "\\ude6b">>,
    <<"\\ud836", "\\ude6c">>, <<"\\ud836", "\\ude75">>,
    <<"\\ud836", "\\ude84">>, <<"\\ud836", "\\ude9b">>,
    <<"\\ud836", "\\ude9c">>, <<"\\ud836", "\\ude9d">>,
    <<"\\ud836", "\\ude9e">>, <<"\\ud836", "\\ude9f">>,
    <<"\\ud836", "\\udea1">>, <<"\\ud836", "\\udea2">>,
    <<"\\ud836", "\\udea3">>, <<"\\ud836", "\\udea4">>,
    <<"\\ud836", "\\udea5">>, <<"\\ud836", "\\udea6">>,
    <<"\\ud836", "\\udea7">>, <<"\\ud836", "\\udea8">>,
    <<"\\ud836", "\\udea9">>, <<"\\ud836", "\\udeaa">>,
    <<"\\ud836", "\\udeab">>, <<"\\ud836", "\\udeac">>,
    <<"\\ud836", "\\udead">>, <<"\\ud836", "\\udeae">>,
    <<"\\ud836", "\\udeaf">>, <<"\\ud838", "\\udc00">>,
    <<"\\ud838", "\\udc01">>, <<"\\ud838", "\\udc02">>,
    <<"\\ud838", "\\udc03">>, <<"\\ud838", "\\udc04">>,
    <<"\\ud838", "\\udc05">>, <<"\\ud838", "\\udc06">>,
    <<"\\ud838", "\\udc08">>, <<"\\ud838", "\\udc09">>,
    <<"\\ud838", "\\udc0a">>, <<"\\ud838", "\\udc0b">>,
    <<"\\ud838", "\\udc0c">>, <<"\\ud838", "\\udc0d">>,
    <<"\\ud838", "\\udc0e">>, <<"\\ud838", "\\udc0f">>,
    <<"\\ud838", "\\udc10">>, <<"\\ud838", "\\udc11">>,
    <<"\\ud838", "\\udc12">>, <<"\\ud838", "\\udc13">>,
    <<"\\ud838", "\\udc14">>, <<"\\ud838", "\\udc15">>,
    <<"\\ud838", "\\udc16">>, <<"\\ud838", "\\udc17">>,
    <<"\\ud838", "\\udc18">>, <<"\\ud838", "\\udc1b">>,
    <<"\\ud838", "\\udc1c">>, <<"\\ud838", "\\udc1d">>,
    <<"\\ud838", "\\udc1e">>, <<"\\ud838", "\\udc1f">>,
    <<"\\ud838", "\\udc20">>, <<"\\ud838", "\\udc21">>,
    <<"\\ud838", "\\udc23">>, <<"\\ud838", "\\udc24">>,
    <<"\\ud838", "\\udc26">>, <<"\\ud838", "\\udc27">>,
    <<"\\ud838", "\\udc28">>, <<"\\ud838", "\\udc29">>,
    <<"\\ud838", "\\udc2a">>, <<"\\ud838", "\\udc30">>,
    <<"\\ud838", "\\udc31">>, <<"\\ud838", "\\udc32">>,
    <<"\\ud838", "\\udc33">>, <<"\\ud838", "\\udc34">>,
    <<"\\ud838", "\\udc35">>, <<"\\ud838", "\\udc36">>,
    <<"\\ud838", "\\udc37">>, <<"\\ud838", "\\udc38">>,
    <<"\\ud838", "\\udc39">>, <<"\\ud838", "\\udc3a">>,
    <<"\\ud838", "\\udc3b">>, <<"\\ud838", "\\udc3c">>,
    <<"\\ud838", "\\udc3d">>, <<"\\ud838", "\\udc3e">>,
    <<"\\ud838", "\\udc3f">>, <<"\\ud838", "\\udc40">>,
    <<"\\ud838", "\\udc41">>, <<"\\ud838", "\\udc42">>,
    <<"\\ud838", "\\udc43">>, <<"\\ud838", "\\udc44">>,
    <<"\\ud838", "\\udc45">>, <<"\\ud838", "\\udc46">>,
    <<"\\ud838", "\\udc47">>, <<"\\ud838", "\\udc48">>,
    <<"\\ud838", "\\udc49">>, <<"\\ud838", "\\udc4a">>,
    <<"\\ud838", "\\udc4b">>, <<"\\ud838", "\\udc4c">>,
    <<"\\ud838", "\\udc4d">>, <<"\\ud838", "\\udc4e">>,
    <<"\\ud838", "\\udc4f">>, <<"\\ud838", "\\udc50">>,
    <<"\\ud838", "\\udc51">>, <<"\\ud838", "\\udc52">>,
    <<"\\ud838", "\\udc53">>, <<"\\ud838", "\\udc54">>,
    <<"\\ud838", "\\udc55">>, <<"\\ud838", "\\udc56">>,
    <<"\\ud838", "\\udc57">>, <<"\\ud838", "\\udc58">>,
    <<"\\ud838", "\\udc59">>, <<"\\ud838", "\\udc5a">>,
    <<"\\ud838", "\\udc5b">>, <<"\\ud838", "\\udc5c">>,
    <<"\\ud838", "\\udc5d">>, <<"\\ud838", "\\udc5e">>,
    <<"\\ud838", "\\udc5f">>, <<"\\ud838", "\\udc60">>,
    <<"\\ud838", "\\udc61">>, <<"\\ud838", "\\udc62">>,
    <<"\\ud838", "\\udc63">>, <<"\\ud838", "\\udc64">>,
    <<"\\ud838", "\\udc65">>, <<"\\ud838", "\\udc66">>,
    <<"\\ud838", "\\udc67">>, <<"\\ud838", "\\udc68">>,
    <<"\\ud838", "\\udc69">>, <<"\\ud838", "\\udc6a">>,
    <<"\\ud838", "\\udc6b">>, <<"\\ud838", "\\udc6c">>,
    <<"\\ud838", "\\udc6d">>, <<"\\ud838", "\\udc8f">>,
    <<"\\ud838", "\\udd30">>, <<"\\ud838", "\\udd31">>,
    <<"\\ud838", "\\udd32">>, <<"\\ud838", "\\udd33">>,
    <<"\\ud838", "\\udd34">>, <<"\\ud838", "\\udd35">>,
    <<"\\ud838", "\\udd36">>, <<"\\ud838", "\\udd37">>,
    <<"\\ud838", "\\udd38">>, <<"\\ud838", "\\udd39">>,
    <<"\\ud838", "\\udd3a">>, <<"\\ud838", "\\udd3b">>,
    <<"\\ud838", "\\udd3c">>, <<"\\ud838", "\\udd3d">>,
    <<"\\ud838", "\\udeae">>, <<"\\ud838", "\\udeec">>,
    <<"\\ud838", "\\udeed">>, <<"\\ud838", "\\udeee">>,
    <<"\\ud838", "\\udeef">>, <<"\\ud839", "\\udceb">>,
    <<"\\ud839", "\\udcec">>, <<"\\ud839", "\\udced">>,
    <<"\\ud839", "\\udcee">>, <<"\\ud839", "\\udcef">>,
    <<"\\ud839", "\\uddee">>, <<"\\ud839", "\\uddef">>,
    <<"\\ud839", "\\udee3">>, <<"\\ud839", "\\udee6">>,
    <<"\\ud839", "\\udeee">>, <<"\\ud839", "\\udeef">>,
    <<"\\ud839", "\\udef5">>, <<"\\ud839", "\\udeff">>,
    <<"\\ud83a", "\\udcd0">>, <<"\\ud83a", "\\udcd1">>,
    <<"\\ud83a", "\\udcd2">>, <<"\\ud83a", "\\udcd3">>,
    <<"\\ud83a", "\\udcd4">>, <<"\\ud83a", "\\udcd5">>,
    <<"\\ud83a", "\\udcd6">>, <<"\\ud83a", "\\udd44">>,
    <<"\\ud83a", "\\udd45">>, <<"\\ud83a", "\\udd46">>,
    <<"\\ud83a", "\\udd47">>, <<"\\ud83a", "\\udd48">>,
    <<"\\ud83a", "\\udd49">>, <<"\\ud83a", "\\udd4a">>,
    <<"\\ud83a", "\\udd4b">>, <<"\\ud83c", "\\udffb">>,
    <<"\\ud83c", "\\udffc">>, <<"\\ud83c", "\\udffd">>,
    <<"\\ud83c", "\\udffe">>, <<"\\ud83c", "\\udfff">>,
    <<"\\udb40", "\\udc01">>, <<"\\udb40", "\\udc20">>,
    <<"\\udb40", "\\udc21">>, <<"\\udb40", "\\udc22">>,
    <<"\\udb40", "\\udc23">>, <<"\\udb40", "\\udc24">>,
    <<"\\udb40", "\\udc25">>, <<"\\udb40", "\\udc26">>,
    <<"\\udb40", "\\udc27">>, <<"\\udb40", "\\udc28">>,
    <<"\\udb40", "\\udc29">>, <<"\\udb40", "\\udc2a">>,
    <<"\\udb40", "\\udc2b">>, <<"\\udb40", "\\udc2c">>,
    <<"\\udb40", "\\udc2d">>, <<"\\udb40", "\\udc2e">>,
    <<"\\udb40", "\\udc2f">>, <<"\\udb40", "\\udc30">>,
    <<"\\udb40", "\\udc31">>, <<"\\udb40", "\\udc32">>,
    <<"\\udb40", "\\udc33">>, <<"\\udb40", "\\udc34">>,
    <<"\\udb40", "\\udc35">>, <<"\\udb40", "\\udc36">>,
    <<"\\udb40", "\\udc37">>, <<"\\udb40", "\\udc38">>,
    <<"\\udb40", "\\udc39">>, <<"\\udb40", "\\udc3a">>,
    <<"\\udb40", "\\udc3b">>, <<"\\udb40", "\\udc3c">>,
    <<"\\udb40", "\\udc3d">>, <<"\\udb40", "\\udc3e">>,
    <<"\\udb40", "\\udc3f">>, <<"\\udb40", "\\udc40">>,
    <<"\\udb40", "\\udc41">>, <<"\\udb40", "\\udc42">>,
    <<"\\udb40", "\\udc43">>, <<"\\udb40", "\\udc44">>,
    <<"\\udb40", "\\udc45">>, <<"\\udb40", "\\udc46">>,
    <<"\\udb40", "\\udc47">>, <<"\\udb40", "\\udc48">>,
    <<"\\udb40", "\\udc49">>, <<"\\udb40", "\\udc4a">>,
    <<"\\udb40", "\\udc4b">>, <<"\\udb40", "\\udc4c">>,
    <<"\\udb40", "\\udc4d">>, <<"\\udb40", "\\udc4e">>,
    <<"\\udb40", "\\udc4f">>, <<"\\udb40", "\\udc50">>,
    <<"\\udb40", "\\udc51">>, <<"\\udb40", "\\udc52">>,
    <<"\\udb40", "\\udc53">>, <<"\\udb40", "\\udc54">>,
    <<"\\udb40", "\\udc55">>, <<"\\udb40", "\\udc56">>,
    <<"\\udb40", "\\udc57">>, <<"\\udb40", "\\udc58">>,
    <<"\\udb40", "\\udc59">>, <<"\\udb40", "\\udc5a">>,
    <<"\\udb40", "\\udc5b">>, <<"\\udb40", "\\udc5c">>,
    <<"\\udb40", "\\udc5d">>, <<"\\udb40", "\\udc5e">>,
    <<"\\udb40", "\\udc5f">>, <<"\\udb40", "\\udc60">>,
    <<"\\udb40", "\\udc61">>, <<"\\udb40", "\\udc62">>,
    <<"\\udb40", "\\udc63">>, <<"\\udb40", "\\udc64">>,
    <<"\\udb40", "\\udc65">>, <<"\\udb40", "\\udc66">>,
    <<"\\udb40", "\\udc67">>, <<"\\udb40", "\\udc68">>,
    <<"\\udb40", "\\udc69">>, <<"\\udb40", "\\udc6a">>,
    <<"\\udb40", "\\udc6b">>, <<"\\udb40", "\\udc6c">>,
    <<"\\udb40", "\\udc6d">>, <<"\\udb40", "\\udc6e">>,
    <<"\\udb40", "\\udc6f">>, <<"\\udb40", "\\udc70">>,
    <<"\\udb40", "\\udc71">>, <<"\\udb40", "\\udc72">>,
    <<"\\udb40", "\\udc73">>, <<"\\udb40", "\\udc74">>,
    <<"\\udb40", "\\udc75">>, <<"\\udb40", "\\udc76">>,
    <<"\\udb40", "\\udc77">>, <<"\\udb40", "\\udc78">>,
    <<"\\udb40", "\\udc79">>, <<"\\udb40", "\\udc7a">>,
    <<"\\udb40", "\\udc7b">>, <<"\\udb40", "\\udc7c">>,
    <<"\\udb40", "\\udc7d">>, <<"\\udb40", "\\udc7e">>,
    <<"\\udb40", "\\udc7f">>, <<"\\udb40", "\\udd00">>,
    <<"\\udb40", "\\udd01">>, <<"\\udb40", "\\udd02">>,
    <<"\\udb40", "\\udd03">>, <<"\\udb40", "\\udd04">>,
    <<"\\udb40", "\\udd05">>, <<"\\udb40", "\\udd06">>,
    <<"\\udb40", "\\udd07">>, <<"\\udb40", "\\udd08">>,
    <<"\\udb40", "\\udd09">>, <<"\\udb40", "\\udd0a">>,
    <<"\\udb40", "\\udd0b">>, <<"\\udb40", "\\udd0c">>,
    <<"\\udb40", "\\udd0d">>, <<"\\udb40", "\\udd0e">>,
    <<"\\udb40", "\\udd0f">>, <<"\\udb40", "\\udd10">>,
    <<"\\udb40", "\\udd11">>, <<"\\udb40", "\\udd12">>,
    <<"\\udb40", "\\udd13">>, <<"\\udb40", "\\udd14">>,
    <<"\\udb40", "\\udd15">>, <<"\\udb40", "\\udd16">>,
    <<"\\udb40", "\\udd17">>, <<"\\udb40", "\\udd18">>,
    <<"\\udb40", "\\udd19">>, <<"\\udb40", "\\udd1a">>,
    <<"\\udb40", "\\udd1b">>, <<"\\udb40", "\\udd1c">>,
    <<"\\udb40", "\\udd1d">>, <<"\\udb40", "\\udd1e">>,
    <<"\\udb40", "\\udd1f">>, <<"\\udb40", "\\udd20">>,
    <<"\\udb40", "\\udd21">>, <<"\\udb40", "\\udd22">>,
    <<"\\udb40", "\\udd23">>, <<"\\udb40", "\\udd24">>,
    <<"\\udb40", "\\udd25">>, <<"\\udb40", "\\udd26">>,
    <<"\\udb40", "\\udd27">>, <<"\\udb40", "\\udd28">>,
    <<"\\udb40", "\\udd29">>, <<"\\udb40", "\\udd2a">>,
    <<"\\udb40", "\\udd2b">>, <<"\\udb40", "\\udd2c">>,
    <<"\\udb40", "\\udd2d">>, <<"\\udb40", "\\udd2e">>,
    <<"\\udb40", "\\udd2f">>, <<"\\udb40", "\\udd30">>,
    <<"\\udb40", "\\udd31">>, <<"\\udb40", "\\udd32">>,
    <<"\\udb40", "\\udd33">>, <<"\\udb40", "\\udd34">>,
    <<"\\udb40", "\\udd35">>, <<"\\udb40", "\\udd36">>,
    <<"\\udb40", "\\udd37">>, <<"\\udb40", "\\udd38">>,
    <<"\\udb40", "\\udd39">>, <<"\\udb40", "\\udd3a">>,
    <<"\\udb40", "\\udd3b">>, <<"\\udb40", "\\udd3c">>,
    <<"\\udb40", "\\udd3d">>, <<"\\udb40", "\\udd3e">>,
    <<"\\udb40", "\\udd3f">>, <<"\\udb40", "\\udd40">>,
    <<"\\udb40", "\\udd41">>, <<"\\udb40", "\\udd42">>,
    <<"\\udb40", "\\udd43">>, <<"\\udb40", "\\udd44">>,
    <<"\\udb40", "\\udd45">>, <<"\\udb40", "\\udd46">>,
    <<"\\udb40", "\\udd47">>, <<"\\udb40", "\\udd48">>,
    <<"\\udb40", "\\udd49">>, <<"\\udb40", "\\udd4a">>,
    <<"\\udb40", "\\udd4b">>, <<"\\udb40", "\\udd4c">>,
    <<"\\udb40", "\\udd4d">>, <<"\\udb40", "\\udd4e">>,
    <<"\\udb40", "\\udd4f">>, <<"\\udb40", "\\udd50">>,
    <<"\\udb40", "\\udd51">>, <<"\\udb40", "\\udd52">>,
    <<"\\udb40", "\\udd53">>, <<"\\udb40", "\\udd54">>,
    <<"\\udb40", "\\udd55">>, <<"\\udb40", "\\udd56">>,
    <<"\\udb40", "\\udd57">>, <<"\\udb40", "\\udd58">>,
    <<"\\udb40", "\\udd59">>, <<"\\udb40", "\\udd5a">>,
    <<"\\udb40", "\\udd5b">>, <<"\\udb40", "\\udd5c">>,
    <<"\\udb40", "\\udd5d">>, <<"\\udb40", "\\udd5e">>,
    <<"\\udb40", "\\udd5f">>, <<"\\udb40", "\\udd60">>,
    <<"\\udb40", "\\udd61">>, <<"\\udb40", "\\udd62">>,
    <<"\\udb40", "\\udd63">>, <<"\\udb40", "\\udd64">>,
    <<"\\udb40", "\\udd65">>, <<"\\udb40", "\\udd66">>,
    <<"\\udb40", "\\udd67">>, <<"\\udb40", "\\udd68">>,
    <<"\\udb40", "\\udd69">>, <<"\\udb40", "\\udd6a">>,
    <<"\\udb40", "\\udd6b">>, <<"\\udb40", "\\udd6c">>,
    <<"\\udb40", "\\udd6d">>, <<"\\udb40", "\\udd6e">>,
    <<"\\udb40", "\\udd6f">>, <<"\\udb40", "\\udd70">>,
    <<"\\udb40", "\\udd71">>, <<"\\udb40", "\\udd72">>,
    <<"\\udb40", "\\udd73">>, <<"\\udb40", "\\udd74">>,
    <<"\\udb40", "\\udd75">>, <<"\\udb40", "\\udd76">>,
    <<"\\udb40", "\\udd77">>, <<"\\udb40", "\\udd78">>,
    <<"\\udb40", "\\udd79">>, <<"\\udb40", "\\udd7a">>,
    <<"\\udb40", "\\udd7b">>, <<"\\udb40", "\\udd7c">>,
    <<"\\udb40", "\\udd7d">>, <<"\\udb40", "\\udd7e">>,
    <<"\\udb40", "\\udd7f">>, <<"\\udb40", "\\udd80">>,
    <<"\\udb40", "\\udd81">>, <<"\\udb40", "\\udd82">>,
    <<"\\udb40", "\\udd83">>, <<"\\udb40", "\\udd84">>,
    <<"\\udb40", "\\udd85">>, <<"\\udb40", "\\udd86">>,
    <<"\\udb40", "\\udd87">>, <<"\\udb40", "\\udd88">>,
    <<"\\udb40", "\\udd89">>, <<"\\udb40", "\\udd8a">>,
    <<"\\udb40", "\\udd8b">>, <<"\\udb40", "\\udd8c">>,
    <<"\\udb40", "\\udd8d">>, <<"\\udb40", "\\udd8e">>,
    <<"\\udb40", "\\udd8f">>, <<"\\udb40", "\\udd90">>,
    <<"\\udb40", "\\udd91">>, <<"\\udb40", "\\udd92">>,
    <<"\\udb40", "\\udd93">>, <<"\\udb40", "\\udd94">>,
    <<"\\udb40", "\\udd95">>, <<"\\udb40", "\\udd96">>,
    <<"\\udb40", "\\udd97">>, <<"\\udb40", "\\udd98">>,
    <<"\\udb40", "\\udd99">>, <<"\\udb40", "\\udd9a">>,
    <<"\\udb40", "\\udd9b">>, <<"\\udb40", "\\udd9c">>,
    <<"\\udb40", "\\udd9d">>, <<"\\udb40", "\\udd9e">>,
    <<"\\udb40", "\\udd9f">>, <<"\\udb40", "\\udda0">>,
    <<"\\udb40", "\\udda1">>, <<"\\udb40", "\\udda2">>,
    <<"\\udb40", "\\udda3">>, <<"\\udb40", "\\udda4">>,
    <<"\\udb40", "\\udda5">>, <<"\\udb40", "\\udda6">>,
    <<"\\udb40", "\\udda7">>, <<"\\udb40", "\\udda8">>,
    <<"\\udb40", "\\udda9">>, <<"\\udb40", "\\uddaa">>,
    <<"\\udb40", "\\uddab">>, <<"\\udb40", "\\uddac">>,
    <<"\\udb40", "\\uddad">>, <<"\\udb40", "\\uddae">>,
    <<"\\udb40", "\\uddaf">>, <<"\\udb40", "\\uddb0">>,
    <<"\\udb40", "\\uddb1">>, <<"\\udb40", "\\uddb2">>,
    <<"\\udb40", "\\uddb3">>, <<"\\udb40", "\\uddb4">>,
    <<"\\udb40", "\\uddb5">>, <<"\\udb40", "\\uddb6">>,
    <<"\\udb40", "\\uddb7">>, <<"\\udb40", "\\uddb8">>,
    <<"\\udb40", "\\uddb9">>, <<"\\udb40", "\\uddba">>,
    <<"\\udb40", "\\uddbb">>, <<"\\udb40", "\\uddbc">>,
    <<"\\udb40", "\\uddbd">>, <<"\\udb40", "\\uddbe">>,
    <<"\\udb40", "\\uddbf">>, <<"\\udb40", "\\uddc0">>,
    <<"\\udb40", "\\uddc1">>, <<"\\udb40", "\\uddc2">>,
    <<"\\udb40", "\\uddc3">>, <<"\\udb40", "\\uddc4">>,
    <<"\\udb40", "\\uddc5">>, <<"\\udb40", "\\uddc6">>,
    <<"\\udb40", "\\uddc7">>, <<"\\udb40", "\\uddc8">>,
    <<"\\udb40", "\\uddc9">>, <<"\\udb40", "\\uddca">>,
    <<"\\udb40", "\\uddcb">>, <<"\\udb40", "\\uddcc">>,
    <<"\\udb40", "\\uddcd">>, <<"\\udb40", "\\uddce">>,
    <<"\\udb40", "\\uddcf">>, <<"\\udb40", "\\uddd0">>,
    <<"\\udb40", "\\uddd1">>, <<"\\udb40", "\\uddd2">>,
    <<"\\udb40", "\\uddd3">>, <<"\\udb40", "\\uddd4">>,
    <<"\\udb40", "\\uddd5">>, <<"\\udb40", "\\uddd6">>,
    <<"\\udb40", "\\uddd7">>, <<"\\udb40", "\\uddd8">>,
    <<"\\udb40", "\\uddd9">>, <<"\\udb40", "\\uddda">>,
    <<"\\udb40", "\\udddb">>, <<"\\udb40", "\\udddc">>,
    <<"\\udb40", "\\udddd">>, <<"\\udb40", "\\uddde">>,
    <<"\\udb40", "\\udddf">>, <<"\\udb40", "\\udde0">>,
    <<"\\udb40", "\\udde1">>, <<"\\udb40", "\\udde2">>,
    <<"\\udb40", "\\udde3">>, <<"\\udb40", "\\udde4">>,
    <<"\\udb40", "\\udde5">>, <<"\\udb40", "\\udde6">>,
    <<"\\udb40", "\\udde7">>, <<"\\udb40", "\\udde8">>,
    <<"\\udb40", "\\udde9">>, <<"\\udb40", "\\uddea">>,
    <<"\\udb40", "\\uddeb">>, <<"\\udb40", "\\uddec">>,
    <<"\\udb40", "\\udded">>, <<"\\udb40", "\\uddee">>,
    <<"\\udb40", "\\uddef">>
  }

UpperSet == {UpperChars[i] : i \in 1..Len(UpperChars)}

UpperPairSet == {UpperPairs[i] : i \in 1..Len(UpperPairs)}

\* WhiteSpace and LineTerminator: what trim, parseFloat and \s skip
WhiteSpace ==
  {
    "\t", "\n", "\\u000b", "\f", "\r", " ", "\\u00a0", "\\u1680", "\\u2000",
    "\\u2001", "\\u2002", "\\u2003", "\\u2004", "\\u2005", "\\u2006",
    "\\u2007", "\\u2008", "\\u2009", "\\u200a", "\\u2028", "\\u2029",
    "\\u202f", "\\u205f", "\\u3000", "\\ufeff"
  }

IsDigit(c) == \E i \in 1..10 : DigitChars[i] = c

DigitVal(c) == (CHOOSE i \in 1..10 : DigitChars[i] = c) - 1

CharAt(s, i) == IF i >= 1 /\ i <= Len(s) THEN s[i] ELSE ""

\* the code units at i and i + 1, <<>> if there are none
PairAt(s, i) == IF i >= 1 /\ i < Len(s) THEN <<s[i], s[i + 1]>> ELSE <<>>

\* whether a cased letter, then case-ignorable characters only, end at j
RECURSIVE CasedBefore(_, _)
CasedBefore(s, j) ==
  IF j < 1 THEN FALSE
  ELSE IF PairAt(s, j - 1) \in CaseIgnorablePairs THEN CasedBefore(s, j - 2)
  ELSE IF PairAt(s, j - 1) \in CasedPairs THEN TRUE
  ELSE IF s[j] \in CaseIgnorable THEN CasedBefore(s, j - 1)
  ELSE s[j] \in Cased

\* whether case-ignorable characters only, then a cased letter, start at j
RECURSIVE CasedAfter(_, _)
CasedAfter(s, j) ==
  IF j > Len(s) THEN FALSE
  ELSE IF PairAt(s, j) \in CaseIgnorablePairs THEN CasedAfter(s, j + 2)
  ELSE IF PairAt(s, j) \in CasedPairs THEN TRUE
  ELSE IF s[j] \in CaseIgnorable THEN CasedAfter(s, j + 1)
  ELSE s[j] \in Cased

\* what toLowerCase puts for the code unit at i: nothing for the second
\* half of a surrogate pair it has mapped; the final or the plain small
\* sigma for a capital sigma; two code units for the dotted capital I
LowerAt(s, i) ==
  IF PairAt(s, i - 1) \in UpperPairSet THEN <<>>
  ELSE IF PairAt(s, i) \in UpperPairSet THEN
    LowerPairs[CHOOSE j \in 1..Len(UpperPairs) : UpperPairs[j] = PairAt(s, i)]
  ELSE IF s[i] = "\\u03a3" THEN
    (IF CasedBefore(s, i - 1) /\ ~CasedAfter(s, i + 1)
     THEN <<"\\u03c2">> ELSE <<"\\u03c3">>)
  ELSE IF s[i] = "\\u0130" THEN <<"i", "\\u0307">>
  ELSE IF s[i] \in UpperSet THEN
    <<LowerChars[CHOOSE j \in 1..Len(UpperChars) : UpperChars[j] = s[i]]>>
  ELSE <<s[i]>>

\* the concatenation of ss[lo..hi]
RECURSIVE Flatten(_, _, _)
Flatten(ss, lo, hi) ==
  IF lo > hi THEN <<>>
  ELSE IF lo = hi THEN ss[lo]
  ELSE Flatten(ss, lo, (lo + hi) \div 2)
         \o Flatten(ss, (lo + hi) \div 2 + 1, hi)

\* String.prototype.toLowerCase
toLowerCase(s) == Flatten([i \in 1..Len(s) |-> LowerAt(s, i)], 1, Len(s))

\* String.prototype.trim
trim(s) ==
  LET keep == {i \in 1..Len(s) : s[i] \notin WhiteSpace}
  IN  IF keep = {} THEN <<>>
      ELSE SubSeq(s, CHOOSE i \in keep : \A j \in keep : i <= j,
                     CHOOSE i \in keep : \A j \in keep : i >= j)

\* String.prototype.replace(from, to) with a string pattern of one
\* character: only the first occurrence is replaced
replace(s, from, to) ==
  LET hits == {i \in 1..Len(s) : s[i] = from}
  IN  IF hits = {} THEN s
      ELSE [s EXCEPT ![CHOOSE i \in hits : \A j \in hits : i <= j] = to]

\* String.prototype.includes
includes(s, t) ==
  \E i \in 1..(Len(s) - Len(t) + 1) : SubSeq(s, i, i + Len(t) - 1) = t

\* whether t occurs in s at position p
StartsWithAt(s, p, t) ==
  p + Len(t) - 1 <= Len(s) /\ SubSeq(s, p, p + Len(t) - 1) = t

\* length of the longest run of digits of s that starts at position i
RECURSIVE DigitRun(_, _)
DigitRun(s, i) ==
  IF i <= Len(s) /\ IsDigit(s[i]) THEN 1 + DigitRun(s, i + 1) ELSE 0

\* length of the longest run of white space of s that starts at position i
RECURSIVE SpaceRun(_, _)
SpaceRun(s, i) ==
  IF i <= Len(s) /\ s[i] \in WhiteSpace THEN 1 + SpaceRun(s, i + 1) ELSE 0

(***************************************************************************)
(* parseFloat: the longest prefix that is a StrDecimalLiteral.             *)
(***************************************************************************)
\* beyond this many decimal places every literal is 0 or Infinity
ExpCap == 400

\* the digits ds as a small integer, capped at ExpCap * 10
RECURSIVE DigitsToInt(_, _)
DigitsToInt(ds, acc) ==
  IF ds = <<>> THEN acc
  ELSE DigitsToInt(Tail(ds), Min(ExpCap * 10, acc * 10 + DigitVal(Head(ds))))

RECURSIVE Pow10(_)
Pow10(n) == IF n = 0 THEN 1 ELSE 10 * Pow10(n - 1)

\* x * 10^n, the exponent halved at each step
RECURSIVE BMulPow10(_, _)
BMulPow10(x, n) ==
  IF x = <<>> THEN <<>>
  ELSE IF n <= 4 THEN BMulSmall(x, Pow10(n))
  ELSE BMulPow10(BMulPow10(x, n \div 2), n - n \div 2)

\* the decimal digits ds as a natural number
RECURSIVE DigitsToNat(_)
DigitsToNat(ds) ==
  IF ds = <<>> THEN <<>>
  ELSE IF Len(ds) = 1 THEN BFromInt(DigitVal(ds[1]))
  ELSE LET h    == Len(ds) \div 2
           high == DigitsToNat(SubSeq(ds, 1, h))
           low  == DigitsToNat(SubSeq(ds, h + 1, Len(ds)))
       IN  BAdd(BMulPow10(high, Len(ds) - h), low)

\* floor(x / 10^n) and whether a remainder was dropped, the exponent
\* halved at each step
RECURSIVE BDivPow10(_, _)
BDivPow10(x, n) ==
  IF x = <<>> THEN [q |-> <<>>, sticky |-> FALSE]
  ELSE IF n <= 4 THEN
    LET d == BDivSmall(x, Pow10(n)) IN [q |-> d.q, sticky |-> d.r # 0]
  ELSE LET first == BDivPow10(x, n \div 2)
           rest  == BDivPow10(first.q, n - n \div 2)
       IN  [q |-> rest.q, sticky |-> first.sticky \/ rest.sticky]

\* the Number nearest to (-1)^neg * N * 10^E10
DecToDouble(neg, N, E10) ==
  IF N = <<>> THEN Zero(neg)
  ELSE IF E10 >= 0 THEN
    (IF E10 > ExpCap THEN Infinity(neg)
     ELSE RoundToDouble(neg, BMulPow10(N, E10), 0))
  ELSE IF 0 - E10 > ExpCap + 5 * Len(N) THEN Zero(neg)
  ELSE LET k == 0 - E10
           s == 4 * k + 56
           d == BDivPow10(BShl(N, s), k)
           M == BAdd(BShl(d.q, 1), IF d.sticky THEN <<1>> ELSE <<>>)
       IN  RoundToDouble(neg, BNorm(M), 0 - s - 1)

parseFloat(str) ==
  LET p0   == 1 + SpaceRun(str, 1)
      sgn  == CharAt(str, p0)
      p1   == IF sgn \in {"+", "-"} THEN p0 + 1 ELSE p0
      n1   == DigitRun(str, p1)
      dot  == CharAt(str, p1 + n1) = "."
      n2   == IF dot THEN DigitRun(str, p1 + n1 + 1) ELSE 0
      p2   == IF dot /\ (n1 > 0 \/ n2 > 0) THEN p1 + n1 + 1 + n2 ELSE p1 + n1
      esg  == CharAt(str, p2 + 1)
      p3   == IF esg \in {"+", "-"} THEN p2 + 2 ELSE p2 + 1
      n3   == IF CharAt(str, p2) \in {"e", "E"} THEN DigitRun(str, p3) ELSE 0
      ex   == IF n3 = 0 THEN 0
              ELSE (IF esg = "-" THEN -1 ELSE 1)
                     * DigitsToInt(SubSeq(str, p3, p3 + n3 - 1), 0)
      ds   == SubSeq(str, p1, p1 + n1 - 1)
                \o (IF dot THEN SubSeq(str, p1 + n1 + 1, p1 + n1 + n2) ELSE <<>>)
  IN  IF StartsWithAt(str, p1, <<"I", "n", "f", "i", "n", "i", "t", "y">>)
      THEN Infinity(sgn = "-")
      ELSE IF n1 + n2 = 0 THEN NaN
      ELSE DecToDouble(sgn = "-", DigitsToNat(ds), ex - n2)

(***************************************************************************)
(* parseDurationToSeconds                                                  *)
(***************************************************************************)
\* ['m', 'min', 'minute', 'minutes', 'phút']
MinuteUnits ==
  << <<"m">>, <<"m", "i", "n">>, <<"m", "i", "n", "u", "t", "e">>,
     <<"m", "i", "n", "u", "t", "e", "s">>, <<"p", "h", "ú", "t">> >>

\* s, sec, second, seconds, giây
SecondUnits ==
  << <<"s">>, <<"s", "e", "c">>, <<"s", "e", "c", "o", "n", "d">>,
     <<"s", "e", "c", "o", "n", "d", "s">>, <<"g", "i", "â", "y">> >>

\* (m|min|minute|minutes|phút|s|sec|second|seconds|giây), in this order
UnitAlternatives == MinuteUnits \o SecondUnits

\* the first alternative that matches s at position p, <<>> if none does
FirstUnit(s, p) ==
  LET hits == {k \in 1..Len(UnitAlternatives) :
                 StartsWithAt(s, p, UnitAlternatives[k])}
  IN  IF hits = {} THEN <<>>
      ELSE UnitAlternatives[CHOOSE k \in hits : \A j \in hits : k <= j]

NoMatch == [ok |-> FALSE, num |-> <<>>, unit |-> <<>>, end |-> 0]

\* /(\d+(\.\d+)?)\s*(unit)/ tried at position i of s: match[1] is num,
\* match[3] is unit, end is the position after the match
MatchAt(s, i) ==
  LET n1    == DigitRun(s, i)
      n2    == IF CharAt(s, i + n1) = "." THEN DigitRun(s, i + n1 + 1) ELSE 0
      endF  == i + n1 + 1 + n2
      posF  == endF + SpaceRun(s, endF)
      unitF == FirstUnit(s, posF)
      endI  == i + n1
      posI  == endI + SpaceRun(s, endI)
      unitI == FirstUnit(s, posI)
  IN  IF n1 = 0 THEN NoMatch
      ELSE IF n2 > 0 /\ unitF # <<>> THEN
        [ok |-> TRUE, num |-> SubSeq(s, i, endF - 1), unit |-> unitF,
         end |-> posF + Len(unitF)]
      ELSE IF unitI # <<>> THEN
        [ok |-> TRUE, num |-> SubSeq(s, i, endI - 1), unit |-> unitI,
         end |-> posI + Len(unitI)]
      ELSE NoMatch

\* cleanStr.matchAll(/.../g) from position i on: the matches, left to right
RECURSIVE matchAll(_, _)
matchAll(s, i) ==
  IF i > Len(s) THEN <<>>
  ELSE LET mt == MatchAt(s, i)
       IN  IF mt.ok THEN <<mt>> \o matchAll(s, mt.end)
           ELSE matchAll(s, i + 1)

IsMinuteUnit(unit) == \E k \in 1..Len(MinuteUnits) : MinuteUnits[k] = unit

\* the body of the for loop: totalSeconds after one more match
AddMatch(total, mt) ==
  LET Add(value) ==
        DblAdd(total, IF IsMinuteUnit(mt.unit) THEN DblMulNat(value, 60)
                      ELSE value)
  IN  Add(parseFloat(mt.num))

\* the for loop over the matches
RECURSIVE Accumulate(_, _)
Accumulate(total, ms) ==
  IF ms = <<>> THEN total
  ELSE Accumulate(AddMatch(total, Head(ms)), Tail(ms))

CleanStr(durationStr) == replace(toLowerCase(trim(durationStr)), ",", ".")

\* [threw |-> whether the Error of line 75 is thrown,
\*  totalSeconds, unitFound |-> the locals when the function ends]
parseDurationToSeconds(durationStr) ==
  LET End(total, unitFound) ==
        [threw        |-> isNaN(total) \/ DblLeq(total, Zero(FALSE)),
         totalSeconds |-> total,
         unitFound    |-> unitFound]
      Fallback(plainNumber) ==
        IF ~isNaN(plainNumber) /\ isFinite(plainNumber) THEN plainNumber
        ELSE Zero(FALSE)
      Loop(cleanStr, matches) ==
        IF matches # <<>> THEN End(Accumulate(Zero(FALSE), matches), TRUE)
        ELSE End(Fallback(parseFloat(cleanStr)), FALSE)
      Scan(cleanStr) == Loop(cleanStr, matchAll(cleanStr, 1))
  IN  Scan(CleanStr(durationStr))

(***************************************************************************)
(* JSON.parse, as V8's JsonParser does it.  A text is a sequence of code   *)
(* units; a value is a record [t, v]: t is "null", "bool", "num", "str",   *)
(* "arr" or "obj", and v holds the boolean, the characters of the number   *)
(* or of the string, the elements, or the <<key, value>> members in the    *)
(* order Object.keys lists them in.                                        *)
(***************************************************************************)
NoValue == [t |-> "undefined", v |-> <<>>]
JNull == [t |-> "null", v |-> <<>>]
JBool(b) == [t |-> "bool", v |-> <<b>>]
JNum(cs) == [t |-> "num", v |-> cs]
JStr(cs) == [t |-> "str", v |-> cs]
JArr(elems) == [t |-> "arr", v |-> elems]
JObj(members) == [t |-> "obj", v |-> members]

\* a failure of the parser: the error JsonParser reports at position p,
\* named as V8's message template is
ParseFail(kind, p) == [ok |-> FALSE, v |-> NoValue, p |-> p, kind |-> kind]
ParseOk(v, p) == [ok |-> TRUE, v |-> v, p |-> p, kind |-> "none"]

\* the white space of JSON: space, tab, line feed, carriage return
JsonWhiteSpace == {" ", "\t", "\n", "\r"}

RECURSIVE SkipWs(_, _)
SkipWs(s, p) ==
  IF p <= Len(s) /\ s[p] \in JsonWhiteSpace THEN SkipWs(s, p + 1) ELSE p

\* the code units below U+0020, which a string literal may not hold
ControlChars ==
  {
    "\\u0000", "\\u0001", "\\u0002", "\\u0003", "\\u0004", "\\u0005",
    "\\u0006", "\\u0007", "\\u0008", "\t", "\n", "\\u000b", "\f", "\r",
    "\\u000e", "\\u000f", "\\u0010", "\\u0011", "\\u0012", "\\u0013",
    "\\u0014", "\\u0015", "\\u0016", "\\u0017", "\\u0018", "\\u0019",
    "\\u001a", "\\u001b", "\\u001c", "\\u001d", "\\u001e", "\\u001f"
  }

\* the code units U+0000 to U+00FF, CodeChars[u + 1] being U+u
CodeChars ==
  <<
    "\\u0000", "\\u0001", "\\u0002", "\\u0003", "\\u0004", "\\u0005",
    "\\u0006", "\\u0007", "\\u0008", "\t", "\n", "\\u000b", "\f", "\r",
    "\\u000e", "\\u000f", "\\u0010", "\\u0011", "\\u0012", "\\u0013",
    "\\u0014", "\\u0015", "\\u0016", "\\u0017", "\\u0018", "\\u0019",
    "\\u001a", "\\u001b", "\\u001c", "\\u001d", "\\u001e", "\\u001f", " ",
    "!", "\"", "#", "$", "%", "&", "'", "(", ")", "*", "+", ",", "-", ".",
    "/", "0", "1", "2", "3", "4", "5", "6", "7", "8", "9", ":", ";", "<", "=",
    ">", "?", "@", "A", "B", "C", "D", "E", "F", "G", "H", "I", "J", "K", "L",
    "M", "N", "O", "P", "Q", "R", "S", "T", "U", "V", "W", "X", "Y", "Z", "[",
    "\\", "]", "^", "_", "\\u0060", "a", "b", "c", "d", "e", "f", "g", "h",
    "i", "j", "k", "l", "m", "n", "o", "p", "q", "r", "s", "t", "u", "v", "w",
    "x", "y", "z", "{", "|", "}", "~", "\\u007f", "\\u0080", "\\u0081",
    "\\u0082", "\\u0083", "\\u0084", "\\u0085", "\\u0086", "\\u0087",
    "\\u0088", "\\u0089", "\\u008a", "\\u008b", "\\u008c", "\\u008d",
    "\\u008e", "\\u008f", "\\u0090", "\\u0091", "\\u0092", "\\u0093",
    "\\u0094", "\\u0095", "\\u0096", "\\u0097", "\\u0098", "\\u0099",
    "\\u009a", "\\u009b", "\\u009c", "\\u009d", "\\u009e", "\\u009f",
    "\\u00a0", "¡", "¢", "£", "¤", "¥", "¦", "§", "¨", "©", "ª", "«", "¬",
    "\\u00ad", "®", "¯", "°", "±", "²", "³", "´", "µ", "¶", "·", "¸", "¹",
    "º", "»", "¼", "½", "¾", "¿", "À", "Á", "Â", "Ã", "Ä", "Å", "Æ", "Ç", "È",
    "É", "Ê", "Ë", "Ì", "Í", "Î", "Ï", "Ð", "Ñ", "Ò", "Ó", "Ô", "Õ", "Ö", "×",
    "Ø", "Ù", "Ú", "Û", "Ü", "Ý", "Þ", "ß", "à", "á", "â", "ã", "ä", "å", "æ",
    "ç", "è", "é", "ê", "ë", "ì", "í", "î", "ï", "ð", "ñ", "ò", "ó", "ô", "õ",
    "ö", "÷", "ø", "ù", "ú", "û", "ü", "ý", "þ", "ÿ"
  >>

HexChars ==
  <<"0", "1", "2", "3", "4", "5", "6", "7", "8", "9",
    "a", "b", "c", "d", "e", "f">>

HexCapitals ==
  <<"0", "1", "2", "3", "4", "5", "6", "7", "8", "9",
    "A", "B", "C", "D", "E", "F">>

IsHexDigit(c) == \E i \in 1..16 : HexChars[i] = c \/ HexCapitals[i] = c

HexVal(c) == (CHOOSE i \in 1..16 : HexChars[i] = c \/ HexCapitals[i] = c) - 1

\* the code units U+0000..U+00FF
Latin1Chars == {CodeChars[i] : i \in 1..Len(CodeChars)}

\* the code unit of value u
CodeUnit(u) ==
  IF u < 256 THEN CodeChars[u + 1]
  ELSE "\\u" \o HexChars[u \div 4096 + 1] \o HexChars[((u \div 256) % 16) + 1]
         \o HexChars[((u \div 16) % 16) + 1] \o HexChars[(u % 16) + 1]

\* the character an escape sequence \c stands for, "" if \c is none
\* or is the \u of four hexadecimal digits
Unescape(c) ==
  CASE c = "\"" -> "\""
    [] c = "\\" -> "\\"
    [] c = "/"  -> "/"
    [] c = "b"  -> "\\u0008"
    [] c = "f"  -> "\f"
    [] c = "n"  -> "\n"
    [] c = "r"  -> "\r"
    [] c = "t"  -> "\t"
    [] OTHER    -> ""

\* the rest of a string literal whose opening quote has been read; the
\* character after a backslash is reported as an unexpected token when
\* it is the end of the text or is beyond U+00FF, as a bad escape when it
\* is another character that starts no escape sequence
RECURSIVE ParseChars(_, _, _)
ParseChars(s, p, acc) ==
  LET c == CharAt(s, p)
      e == CharAt(s, p + 1)
      bad == {k \in 2..5 : ~IsHexDigit(CharAt(s, p + k))}
      Hex(k) == HexVal(s[p + k])
  IN  IF p > Len(s) THEN ParseFail("UnterminatedString", p)
      ELSE IF c = "\"" THEN ParseOk(JStr(acc), p + 1)
      ELSE IF c = "\\" THEN
        (IF e \notin Latin1Chars THEN ParseFail("UnexpectedToken", p + 1)
         ELSE IF e = "u" THEN
           (IF bad # {}
            THEN ParseFail("BadUnicodeEscape",
                           p + CHOOSE k \in bad : \A j \in bad : k <= j)
            ELSE ParseChars(s, p + 6,
                   Append(acc, CodeUnit(4096 * Hex(2) + 256 * Hex(3)
                                          + 16 * Hex(4) + Hex(5)))))
         ELSE IF Unescape(e) = "" THEN ParseFail("BadEscapedCharacter", p + 1)
         ELSE ParseChars(s, p + 2, Append(acc, Unescape(e))))
      ELSE IF c \in ControlChars THEN ParseFail("BadControlCharacter", p)
      ELSE ParseChars(s, p + 1, Append(acc, c))

ParseString(s, p) == ParseChars(s, p + 1, <<>>)

\* -? (0 | [1-9][0-9]*) (\.[0-9]+)? ([eE][+-]?[0-9]+)?
ParseNumber(s, p) ==
  LET p1   == IF CharAt(s, p) = "-" THEN p + 1 ELSE p
      zero == CharAt(s, p1) = "0"
      n1   == IF zero THEN 1 ELSE DigitRun(s, p1)
      p2   == p1 + n1
      frac == CharAt(s, p2) = "."
      n2   == IF frac THEN DigitRun(s, p2 + 1) ELSE 0
      p3   == IF frac THEN p2 + 1 + n2 ELSE p2
      exp  == CharAt(s, p3) \in {"e", "E"}
      sg   == IF CharAt(s, p3 + 1) \in {"+", "-"} THEN 1 ELSE 0
      n3   == IF exp THEN DigitRun(s, p3 + 1 + sg) ELSE 0
      p4   == IF exp THEN p3 + 1 + sg + n3 ELSE p3
  IN  IF zero /\ IsDigit(CharAt(s, p1 + 1))
        THEN ParseFail("UnexpectedTokenNumber", p1 + 1)
      ELSE IF n1 = 0 THEN ParseFail("NoNumberAfterMinusSign", p1)
      ELSE IF frac /\ n2 = 0
        THEN ParseFail("UnterminatedFractionalNumber", p2 + 1)
      ELSE IF exp /\ n3 = 0
        THEN ParseFail("ExponentPartMissingNumber", p3 + 1 + sg)
      ELSE ParseOk(JNum(SubSeq(s, p, p4 - 1)), p4)

\* the literal word expected at p: the first character that differs is
\* the unexpected one
ScanLiteral(s, p, word, v) ==
  LET bad == {i \in 1..Len(word) : CharAt(s, p + i - 1) # word[i]}
  IN  IF bad = {} THEN ParseOk(v, p + Len(word))
      ELSE ParseFail("UnexpectedToken",
                     p - 1 + CHOOSE i \in bad : \A j \in bad : i <= j)

\* a property key that is an array index: the canonical numeral of an
\* integer from 0 to 2^32 - 2
IsArrayIndex(k) ==
  /\ Len(k) \in 1..10
  /\ \A i \in 1..Len(k) : IsDigit(k[i])
  /\ k[1] # "0" \/ Len(k) = 1
  /\ \/ Len(k) < 10
     \/ LET top  == <<4, 2, 9, 4, 9, 6, 7, 2, 9, 4>>
            diff == {i \in 1..10 : DigitVal(k[i]) # top[i]}
        IN  \/ diff = {}
            \/ LET d == CHOOSE i \in diff : \A j \in diff : i <= j
               IN  DigitVal(k[d]) < top[d]

\* a < b for two array indices
IndexLess(a, b) ==
  \/ Len(a) < Len(b)
  \/ /\ Len(a) = Len(b)
     /\ \E i \in 1..Len(a) :
          /\ DigitVal(a[i]) < DigitVal(b[i])
          /\ \A j \in 1..(i - 1) : a[j] = b[j]

\* members with key k set to v, in the order the properties of the
\* object are enumerated in: array indices ascending, then the other keys
\* as they were first added; a repeated key keeps its place and takes the
\* later value
PutMember(members, k, v) ==
  IF \E i \in 1..Len(members) : members[i][1] = k
  THEN [i \in 1..Len(members) |->
          IF members[i][1] = k THEN <<k, v>> ELSE members[i]]
  ELSE IF IsArrayIndex(k)
  THEN LET n == Cardinality({i \in 1..Len(members) :
                               /\ IsArrayIndex(members[i][1])
                               /\ IndexLess(members[i][1], k)})
       IN  SubSeq(members, 1, n) \o << <<k, v>> >>
             \o SubSeq(members, n + 1, Len(members))
  ELSE Append(members, <<k, v>>)

RECURSIVE ParseValue(_, _)
RECURSIVE ParseMembers(_, _, _)
RECURSIVE ParseElements(_, _, _)

\* the members of an object from position p (the opening quote of a key)
\* to the closing brace; acc is empty for the first member, the only one
\* whose missing colon has an error of its own kind
ParseMembers(s, p, acc) ==
  LET k  == ParseString(s, p)
      p1 == SkipWs(s, k.p)
      e  == ParseValue(s, SkipWs(s, p1 + 1))
      p2 == SkipWs(s, e.p)
      p3 == SkipWs(s, p2 + 1)
  IN  IF ~k.ok THEN k
      ELSE IF CharAt(s, p1) # ":"
        THEN ParseFail(IF acc = <<>> THEN "ExpectedColonAfterPropertyName"
                       ELSE "UnexpectedToken", p1)
      ELSE IF ~e.ok THEN e
      ELSE IF CharAt(s, p2) = "," THEN
        (IF CharAt(s, p3) # "\""
         THEN ParseFail("ExpectedDoubleQuotedPropertyName", p3)
         ELSE ParseMembers(s, p3, PutMember(acc, k.v.v, e.v)))
      ELSE IF CharAt(s, p2) = "}"
        THEN ParseOk(JObj(PutMember(acc, k.v.v, e.v)), p2 + 1)
      ELSE ParseFail("ExpectedCommaOrRBrace", p2)

\* the elements of an array from position p to the closing bracket
ParseElements(s, p, acc) ==
  LET e  == ParseValue(s, p)
      p2 == SkipWs(s, e.p)
  IN  IF ~e.ok THEN e
      ELSE IF CharAt(s, p2) = ","
        THEN ParseElements(s, SkipWs(s, p2 + 1), Append(acc, e.v))
      ELSE IF CharAt(s, p2) = "]"
        THEN ParseOk(JArr(Append(acc, e.v)), p2 + 1)
      ELSE ParseFail("ExpectedCommaOrRBrack", p2)

\* the value that starts at p, white space skipped
ParseValue(s, p) ==
  LET c  == CharAt(s, p)
      p1 == SkipWs(s, p + 1)
  IN  IF c = "{" THEN
        (IF CharAt(s, p1) = "}" THEN ParseOk(JObj(<<>>), p1 + 1)
         ELSE IF CharAt(s, p1) # "\""
           THEN ParseFail("ExpectedPropNameOrRBrace", p1)
         ELSE ParseMembers(s, p1, <<>>))
      ELSE IF c = "[" THEN
        (IF CharAt(s, p1) = "]" THEN ParseOk(JArr(<<>>), p1 + 1)
         ELSE ParseElements(s, p1, <<>>))
      ELSE IF c = "\"" THEN ParseString(s, p)
      ELSE IF c = "-" \/ IsDigit(c) THEN ParseNumber(s, p)
      ELSE IF c = "t" THEN ScanLiteral(s, p, <<"t", "r", "u", "e">>, JBool(TRUE))
      ELSE IF c = "f"
        THEN ScanLiteral(s, p, <<"f", "a", "l", "s", "e">>, JBool(FALSE))
      ELSE IF c = "n" THEN ScanLiteral(s, p, <<"n", "u", "l", "l">>, JNull)
      ELSE ParseFail("UnexpectedToken", p)

\* JSON.parse(text): the value, or with ok false the SyntaxError, of
\* which kind names the message and p is the position, counted from 1
JSONparse(text) ==
  LET Top(r) ==
        IF ~r.ok THEN [ok |-> FALSE, v |-> NoValue, kind |-> r.kind, p |-> r.p]
        ELSE IF SkipWs(text, r.p) <= Len(text)
        THEN [ok |-> FALSE, v |-> NoValue,
              kind |-> "UnexpectedNonWhiteSpaceCharacter",
              p |-> SkipWs(text, r.p)]
        ELSE [ok |-> TRUE, v |-> r.v, kind |-> "none", p |-> r.p]
  IN  Top(ParseValue(text, SkipWs(text, 1)))

(***************************************************************************)
(* Errors.  A message is a sequence of pieces of text whose concatenation  *)
(* is the message; the phrase 'API key not valid' is always a piece of     *)
(* its own, so that includes() decides its presence.  Where a message      *)
(* quotes a text, each code unit of the text is a piece, but for the       *)
(* occurrences of the phrase in it, which are the piece of the phrase.     *)
(***************************************************************************)
Err(name, message) == [name |-> name, message |-> message]
NoError == Err("none", <<>>)

ApiKeyPhrase == <<"API key not valid">>
MissingKeyMessage ==
  <<"API Key not provided. Please set it in the Settings tab.">>
InvalidDurationMessage ==
  <<"Invalid duration format. Please use formats like '30s', '1 minute', '2m 15s', '1 phút'.">>
UnexpectedShapeMessage ==
  <<"Unexpected AI response: expected a JSON object with scene_* keys.">>
MissingSceneKeysMessage == <<"AI response missing expected scene_N keys.">>
InvalidKeyMessage ==
  <<"The provided API key is not valid. Please check it in the Settings tab.">>
UnknownErrorMessage ==
  <<"An unknown error occurred while generating scenes.">>
FailedPrefix == <<"Failed to generate scenes: ">>
UndefinedTextMessage ==
  <<"Cannot read properties of undefined (reading 'trim')">>

\* the characters of the phrase
ApiKeyPhraseChars ==
  <<"A", "P", "I", " ", "k", "e", "y", " ", "n", "o", "t", " ",
    "v", "a", "l", "i", "d">>

\* the characters cs from i on as pieces of a message: each occurrence
\* of the phrase is the piece ApiKeyPhrase
RECURSIVE Pieces(_, _)
Pieces(cs, i) ==
  IF i > Len(cs) THEN <<>>
  ELSE IF StartsWithAt(cs, i, ApiKeyPhraseChars)
    THEN ApiKeyPhrase \o Pieces(cs, i + Len(ApiKeyPhraseChars))
  ELSE <<cs[i]>> \o Pieces(cs, i + 1)

\* the decimal digits of a natural number
RECURSIVE IntDigits(_)
IntDigits(n) ==
  IF n < 10 THEN <<DigitChars[n + 1]>>
  ELSE Append(IntDigits(n \div 10), DigitChars[(n % 10) + 1])

\* the generations of V8's JSON.parse messages: "plain" names the
\* unexpected token and its position; "context" has a message for each
\* kind of error and quotes the text around an unexpected token;
\* "located" adds the line and the column to the position
Engines == {"plain", "context", "located"}

\* the texts JsonParser reports whole
SpecialStrings ==
  { <<"N", "a", "N">>,
    <<"I", "n", "f", "i", "n", "i", "t", "y">>,
    <<"u", "n", "d", "e", "f", "i", "n", "e", "d">>,
    <<"[", "o", "b", "j", "e", "c", "t", " ", "O", "b", "j", "e", "c", "t", "]">> }

\* the most characters quoted on each side of an unexpected token
kMaxContextCharacters == 10
\* the shortest text quoted in part only
kMinOriginalSourceLengthForContext == 21

\* the wording of the error of each kind that has a message of its own
MessageTemplate(kind) ==
  CASE kind = "UnterminatedString" -> "Unterminated string in JSON"
    [] kind = "BadControlCharacter" ->
         "Bad control character in string literal in JSON"
    [] kind = "BadEscapedCharacter" -> "Bad escaped character in JSON"
    [] kind = "BadUnicodeEscape" -> "Bad Unicode escape in JSON"
    [] kind = "NoNumberAfterMinusSign" -> "No number after minus sign in JSON"
    [] kind = "UnterminatedFractionalNumber" ->
         "Unterminated fractional number in JSON"
    [] kind = "ExponentPartMissingNumber" ->
         "Exponent part is missing a number in JSON"
    [] kind = "ExpectedPropNameOrRBrace" ->
         "Expected property name or '}' in JSON"
    [] kind = "ExpectedColonAfterPropertyName" ->
         "Expected ':' after property name in JSON"
    [] kind = "ExpectedDoubleQuotedPropertyName" ->
         "Expected double-quoted property name in JSON"
    [] kind = "ExpectedCommaOrRBrace" ->
         "Expected ',' or '}' after property value in JSON"
    [] kind = "ExpectedCommaOrRBrack" ->
         "Expected ',' or ']' after array element in JSON"
    [] kind = "UnexpectedNonWhiteSpaceCharacter" ->
         "Unexpected non-whitespace character after JSON"
    [] OTHER -> ""

\* the message of the SyntaxError JSON.parse(text) throws, text not
\* being JSON; the wording depends on the engine
SyntaxErrorMessage(text, engine) ==
  LET Message(kind, p) ==
        LET c         == CharAt(text, p)
            pos       == p - 1
            n         == Len(text)
            breaks    == {i \in 1..pos :
                            \/ text[i] = "\n"
                            \/ /\ text[i] = "\r"
                               /\ ~(i < pos /\ text[i + 1] = "\n")}
            lastBreak == IF breaks = {} THEN 0
                         ELSE CHOOSE i \in breaks : \A j \in breaks : i >= j
            At        == <<" at position ">> \o IntDigits(pos)
                           \o (IF engine = "located"
                               THEN <<" (line ">>
                                      \o IntDigits(1 + Cardinality(breaks))
                                      \o <<" column ">>
                                      \o IntDigits(pos - lastBreak + 1)
                                      \o <<")">>
                               ELSE <<>>)
            Context   ==
              IF n < kMinOriginalSourceLengthForContext
                THEN <<"\"">> \o Pieces(text, 1) \o <<"\"">>
              ELSE IF pos < kMaxContextCharacters
                THEN <<"\"">>
                       \o Pieces(SubSeq(text, 1, pos + kMaxContextCharacters), 1)
                       \o <<"\"...">>
              ELSE IF pos < n - kMaxContextCharacters
                THEN <<"...\"">>
                       \o Pieces(SubSeq(text, pos - kMaxContextCharacters + 1,
                                        pos + kMaxContextCharacters), 1)
                       \o <<"\"...">>
              ELSE <<"...\"">>
                     \o Pieces(SubSeq(text, pos - kMaxContextCharacters + 1, n), 1)
                     \o <<"\"">>
        IN  IF engine # "plain" /\ MessageTemplate(kind) # ""
              THEN <<MessageTemplate(kind)>> \o At
            ELSE IF p > n THEN <<"Unexpected end of JSON input">>
            ELSE IF kind = "UnexpectedTokenNumber" \/ c = "-" \/ IsDigit(c)
              THEN <<"Unexpected number in JSON">> \o At
            ELSE IF c = "\"" THEN <<"Unexpected string in JSON">> \o At
            ELSE IF engine = "plain"
              THEN <<"Unexpected token ", c, " in JSON">> \o At
            ELSE IF text \in SpecialStrings
              THEN <<"\"">> \o text \o <<"\" is not valid JSON">>
            ELSE <<"Unexpected token '", c, "', ">> \o Context
                   \o <<" is not valid JSON">>
      Of(r) == Message(r.kind, r.p)
  IN  Of(JSONparse(text))

\* getAiClient without the test of line 4
getAiClientUnchecked(key) == NoError

\* getAiClient: the Error it throws, NoError if it returns a client
getAiClient(key) ==
  IF key = <<>> THEN Err("Error", MissingKeyMessage) ELSE NoError

(***************************************************************************)
(* The checks on the response                                              *)
(***************************************************************************)
\* !parsed
Falsy(val) ==
  \/ val.t = "null"
  \/ val.t = "bool" /\ val.v = <<FALSE>>
  \/ val.t = "num" /\ IsZero(parseFloat(val.v))
  \/ val.t = "str" /\ val.v = <<>>

\* typeof parsed === 'object'
TypeofObject(val) == val.t \in {"obj", "arr", "null"}

\* Array.isArray(parsed)
IsArray(val) == val.t = "arr"

RECURSIVE NatDigits(_)
NatDigits(n) ==
  IF n = <<>> THEN <<>>
  ELSE LET d == BDivSmall(n, 10)
       IN  Append(NatDigits(d.q), DigitChars[d.r + 1])

\* |x| >= 10^j, for a finite x other than 0
GeqPow10(x, j) ==
  BCmp(BMulPow10(BShl(x.m, Max(x.e, 0)), Max(0 - j, 0)),
       BShl(BMulPow10(<<1>>, Max(j, 0)), Max(0 - x.e, 0))) >= 0

\* the n with 10^(n-1) <= |x| < 10^n, for a finite x other than 0
DecimalExponent(x) ==
  LET a == ((BitLen(x.m) + x.e - 1) * 30103) \div 100000
  IN  CHOOSE n \in (a - 1)..(a + 3) : GeqPow10(x, n - 1) /\ ~GeqPow10(x, n)

\* the fewest digits that denote x: the s of k digits or more for which
\* s * 10^(n-k) is x when rounded to a Number, the nearer to x when both
\* neighbours of x are, the even one when they are as near
RECURSIVE ShortestDigits(_, _, _)
ShortestDigits(x, n, k) ==
  LET a    == Max(0 - x.e, 0)
      b    == Max(n - k, 0)
      A    == BMulPow10(BShl(x.m, Max(x.e, 0)), Max(k - n, 0))
      lo   == BDivPow10(BShr(A, a), b).q
      hi   == BNorm(BAdd(lo, <<1>>))
      okLo == lo # <<>> /\ DecToDouble(x.neg, lo, n - k) = x
      okHi == DecToDouble(x.neg, hi, n - k) = x
      mid  == BShl(BMulPow10(BNorm(BAdd(BShl(lo, 1), <<1>>)), b), a)
      c    == BCmp(BShl(A, 1), mid)
  IN  IF okLo /\ okHi
        THEN [k |-> k,
              s |-> IF c < 0 \/ (c = 0 /\ BBit(lo, 0) = 0) THEN lo ELSE hi]
      ELSE IF okLo THEN [k |-> k, s |-> lo]
      ELSE IF okHi THEN [k |-> k, s |-> hi]
      ELSE ShortestDigits(x, n, k + 1)

\* ds without the zeros it ends with
RECURSIVE StripZeros(_)
StripZeros(ds) ==
  IF Len(ds) > 1 /\ ds[Len(ds)] = "0"
  THEN StripZeros(SubSeq(ds, 1, Len(ds) - 1)) ELSE ds

\* Number.prototype.toString, radix 10
NumberToString(x) ==
  LET Zs(n) == [i \in 1..n |-> "0"]
      Sign == IF x.neg THEN <<"-">> ELSE <<>>
      \* the number 0.ds * 10^n
      Form(ds, n) ==
        IF Len(ds) <= n /\ n <= 21 THEN ds \o Zs(n - Len(ds))
        ELSE IF 0 < n /\ n <= 21
          THEN SubSeq(ds, 1, n) \o <<".">> \o SubSeq(ds, n + 1, Len(ds))
        ELSE IF -6 < n /\ n <= 0 THEN <<"0", ".">> \o Zs(0 - n) \o ds
        ELSE <<ds[1]>>
               \o (IF Len(ds) > 1 THEN <<".">> \o Tail(ds) ELSE <<>>)
               \o <<"e", IF n >= 1 THEN "+" ELSE "-">>
               \o IntDigits(IF n >= 1 THEN n - 1 ELSE 1 - n)
      Digits(n, k, ds) == Form(StripZeros(ds), n - k + Len(ds))
      Found(n, r) == Digits(n, r.k, NatDigits(r.s))
      Shortest(n) == Found(n, ShortestDigits(x, n, 1))
  IN  IF isNaN(x) THEN <<"N", "a", "N">>
      ELSE IF ~isFinite(x) THEN
        Sign \o <<"I", "n", "f", "i", "n", "i", "t", "y">>
      ELSE IF IsZero(x) THEN <<"0">>
      ELSE IF x.e >= 0 /\ BitLen(x.m) + x.e <= MantBits
        THEN Sign \o NatDigits(BShl(x.m, x.e))
      ELSE Sign \o Shortest(DecimalExponent(x))

\* Object.keys(parsed): the keys of an object, the indices of an array or
\* of a string
ObjectKeys(val) ==
  IF val.t = "obj" THEN [i \in 1..Len(val.v) |-> val.v[i][1]]
  ELSE IF val.t \in {"arr", "str"}
  THEN [i \in 1..Len(val.v) |-> IntDigits(i - 1)]
  ELSE <<>>

ScenePrefix == <<"s", "c", "e", "n", "e", "_">>

\* /^scene_\d+$/.test(k)
IsSceneKey(k) ==
  /\ StartsWithAt(k, 1, ScenePrefix)
  /\ Len(k) > Len(ScenePrefix)
  /\ \A i \in (Len(ScenePrefix) + 1)..Len(k) : IsDigit(k[i])

\* keys.some(k => /^scene_\d+$/.test(k))
HasSceneKey(keys) == \E i \in 1..Len(keys) : IsSceneKey(keys[i])

\* the checks of lines 139 to 152 without Array.isArray(parsed)
CheckResponseNoArrayCheck(resp, engine) ==
  LET Checks(jsonString, res) ==
        IF ~res.ok THEN
          [checks |-> <<"syntax">>,
           error  |-> Err("SyntaxError",
                          SyntaxErrorMessage(jsonString, engine)),
           value  |-> NoValue]
        ELSE IF Falsy(res.v) \/ ~TypeofObject(res.v) THEN
          [checks |-> <<"syntax", "shape">>,
           error  |-> Err("Error", UnexpectedShapeMessage), value |-> NoValue]
        ELSE IF ~HasSceneKey(ObjectKeys(res.v)) THEN
          [checks |-> <<"syntax", "shape", "keys">>,
           error  |-> Err("Error", MissingSceneKeysMessage), value |-> NoValue]
        ELSE
          [checks |-> <<"syntax", "shape", "keys">>, error |-> NoError,
           value |-> res.v]
      Parse(jsonString) == Checks(jsonString, JSONparse(jsonString))
  IN  IF ~resp.hasText THEN
        [checks |-> <<>>, error |-> Err("TypeError", UndefinedTextMessage),
         value |-> NoValue]
      ELSE Parse(trim(resp.text))

\* the checks of lines 139 to 152 without the test of hasSceneKey
CheckResponseNoKeyCheck(resp, engine) ==
  LET Checks(jsonString, res) ==
        IF ~res.ok THEN
          [checks |-> <<"syntax">>,
           error  |-> Err("SyntaxError",
                          SyntaxErrorMessage(jsonString, engine)),
           value  |-> NoValue]
        ELSE IF Falsy(res.v) \/ ~TypeofObject(res.v) \/ IsArray(res.v) THEN
          [checks |-> <<"syntax", "shape">>,
           error  |-> Err("Error", UnexpectedShapeMessage), value |-> NoValue]
        ELSE
          [checks |-> <<"syntax", "shape", "keys">>, error |-> NoError,
           value |-> res.v]
      Parse(jsonString) == Checks(jsonString, JSONparse(jsonString))
  IN  IF ~resp.hasText THEN
        [checks |-> <<>>, error |-> Err("TypeError", UndefinedTextMessage),
         value |-> NoValue]
      ELSE Parse(trim(resp.text))

\* lines 139 to 152 on a response: the checks run, in order, and either
\* the value returned or the error thrown
CheckResponse(resp, engine) ==
  LET Checks(jsonString, res) ==
        IF ~res.ok THEN
          [checks |-> <<"syntax">>,
           error  |-> Err("SyntaxError",
                          SyntaxErrorMessage(jsonString, engine)),
           value  |-> NoValue]
        ELSE IF Falsy(res.v) \/ ~TypeofObject(res.v) \/ IsArray(res.v) THEN
          [checks |-> <<"syntax", "shape">>,
           error  |-> Err("Error", UnexpectedShapeMessage), value |-> NoValue]
        ELSE IF ~HasSceneKey(ObjectKeys(res.v)) THEN
          [checks |-> <<"syntax", "shape", "keys">>,
           error  |-> Err("Error", MissingSceneKeysMessage), value |-> NoValue]
        ELSE
          [checks |-> <<"syntax", "shape", "keys">>, error |-> NoError,
           value |-> res.v]
      Parse(jsonString) == Checks(jsonString, JSONparse(jsonString))
  IN  IF ~resp.hasText THEN
        [checks |-> <<>>, error |-> Err("TypeError", UndefinedTextMessage),
         value |-> NoValue]
      ELSE Parse(trim(resp.text))

\* the catch block: the error the caller receives for the error caught
CatchBlock(error) ==
  IF error.name # "NonError" THEN
    (IF includes(error.message, ApiKeyPhrase)
     THEN Err("Error", InvalidKeyMessage)
     ELSE Err("Error", FailedPrefix \o error.message))
  ELSE Err("Error", UnknownErrorMessage)

(***************************************************************************)
(* Inputs                                                                  *)
(***************************************************************************)
\* the most pieces a duration string is made of
MaxPieces == 3
\* the most keys of an object the gateway answers with
MaxKeys == 2

MODEL_NAME == "gemini-2.5-flash"

Ideas == {<<"a", " ", "c", "a", "t">>, <<>>}

ApiKeys == {<<>>, <<" ">>, <<"k", "e", "y">>}

\* duration strings of the plan calls
Durations ==
  { <<"8">>,
    <<"8", ".", "5">>,
    <<"1", "6">>,
    <<"1", "6", ".", "5">>,
    <<"2", "4", "s">>,
    <<"1", "m", " ", "3", "0", "s">>,
    <<"0", ".", "5">>,
    <<"5", "e", "-", "3", "2", "4">>,
    <<"0", "s">>,
    <<>>,
    <<"a", "b", "c">> }

\* the pieces the duration strings given to the parser are made of
PiecePool ==
  << <<"5">>,
     <<"1", "2">>,
     <<"3", "0">>,
     <<"4", "5">>,
     <<"5", "0", "0">>,
     <<"0", "s">>,
     <<"5", "s">>,
     <<"1", ",", "5", "m">>,
     <<"2", ",", "5", "s">>,
     <<"0", ".", "1", "s">>,
     <<"0", ".", "2", "s">>,
     <<"1", " ", "P", "H", "Ú", "T">>,
     <<"-">>,
     <<"m", "s">>,
     <<" ", "m", "o", "n", "t", "h", "s">>,
     <<" ", "s", "h", "e", "e", "p">>,
     <<"a", "b", "c">>,
     <<":">> >>

RECURSIVE Concat(_)
Concat(ss) == IF ss = <<>> THEN <<>> ELSE Head(ss) \o Concat(Tail(ss))

PieceSeqs ==
  UNION {[1..n -> {PiecePool[i] : i \in 1..Len(PiecePool)}] : n \in 0..MaxPieces}

\* the keys of the objects the gateway answers with
KeyPool ==
  << <<"s", "c", "e", "n", "e", "_", "1">>,
     <<"s", "c", "e", "n", "e", "_", "2">>,
     <<"s", "c", "e", "n", "e", "_", "3">>,
     <<"s", "c", "e", "n", "e", "_", "0">>,
     <<"f", "o", "o">>,
     <<"s", "c", "e", "n", "e", "_", "1", "a">>,
     <<"s", "c", "e", "n", "e", "_">> >>

\* the text of the object whose keys are KeyPool[i] for i in idx, from
\* index i on, each key with an empty scene
RECURSIVE MembersText(_, _, _)
MembersText(idx, i, first) ==
  IF i > Len(KeyPool) THEN <<>>
  ELSE IF i \notin idx THEN MembersText(idx, i + 1, first)
  ELSE (IF first THEN <<>> ELSE <<",">>)
       \o <<"\"">> \o KeyPool[i] \o <<"\"", ":", "{", "}">>
       \o MembersText(idx, i + 1, FALSE)

ObjectText(idx) == <<"{">> \o MembersText(idx, 1, TRUE) \o <<"}">>

ObjectTexts ==
  {ObjectText(idx) : idx \in {x \in SUBSET (1..Len(KeyPool)) : Cardinality(x) <= MaxKeys}}

OtherTexts ==
  { <<"[", "1", ",", "2", ",", "3", "]">>,
    <<"[", "]">>,
    <<"n", "u", "l", "l">>,
    <<"t", "r", "u", "e">>,
    <<"0">>,
    <<"\"", "s", "c", "e", "n", "e", "_", "1", "\"">>,
    <<"n", "o", "t", " ", "j", "s", "o", "n">>,
    <<>>,
    <<"{", "\"", "s", "c", "e", "n", "e", "_", "1", "\"", ":">>,
    <<" ", "{", "\"", "s", "c", "e", "n", "e", "_", "1", "\"", ":", "{", "}", "}", "\n">>,
    ApiKeyPhraseChars,
    <<"\"">> \o ApiKeyPhraseChars \o <<"\"">>,
    <<"[", "1", ",", "2", ",", "3", ",", "4", ",", "5", ",", "6", ",", "7",
      ",", "8", ",", "9", ",">> \o ApiKeyPhraseChars \o <<"]">>,
    <<"\r", "{", "\"", "s", "c", "e", "n", "e", "_", "1", "\"", ":", "\"",
      "\\", "u", "0", "0", "4", "1", "\"", ",", "\"", "1", "\"", ":", "1",
      "}">>,
    <<"{", "\"", "s", "c", "e", "n", "e", "_", "1", "\"", ":", "{", "}", ",",
      "\"", "b", "\"", "}">>,
    <<"{", "\"", "f", "o", "o", "\"", ":", "1", ",",
      "\"", "s", "c", "e", "n", "e", "_", "2", "\"", ":", "[", "]", "}">> }

\* what ai.models.generateContent can resolve with: a response whose
\* text is a string or is undefined
Responses ==
  {[hasText |-> TRUE, text |-> t] : t \in ObjectTexts \cup OtherTexts}
    \cup {[hasText |-> FALSE, text |-> <<>>]}

NoResponse == [hasText |-> FALSE, text |-> <<"none">>]

\* what ai.models.generateContent can reject with
GatewayErrors ==
  { Err("Error", ApiKeyPhrase \o <<". Please pass a valid API key.">>),
    Err("Error", <<"quota exceeded">>),
    Err("TypeError", <<"fetch failed">>),
    Err("NonError", <<"aborted">>) }

(***************************************************************************)
(* State                                                                   *)
(***************************************************************************)
VARIABLES
  pieces,            \* the pieces videoDuration is made of
  videoIdea,         \* arguments of generatePromptFromRequest
  videoDuration,
  apiKey,
  engine,            \* the wording of the engine's SyntaxErrors
  pc,                \* "start", "awaiting", "returned", "threw" for a plan
                     \* call; "parse", "parsed" for a call of the parser
  totalSeconds,      \* what parseDurationToSeconds returned
  unitFound,         \* its local unitFound when it ended
  promptsToGenerate, \* Math.ceil(totalSeconds / 8)
  request,           \* what metaPrompt embeds
  gatewayCalls,      \* calls of ai.models.generateContent so far
  response,          \* what the gateway resolved with
  checks,            \* the checks on the response that ran, in order
  raised,            \* the error thrown inside the try block
  thrown,            \* the error the caller receives
  returned,          \* the value the caller receives
  generatedScenes,   \* state of App (videoIdea, videoDuration and apiKey
  isGenerating,      \* above are state of App as well)
  error,
  activeTab,
  tempApiKey,
  saveStatus,
  storedApiKey,      \* localStorage's gemini_api_key
  calls,             \* the calls of generatePromptFromRequest App made
  userRequest,       \* state of the prompt and test variant of App
  generatedPrompt,   \* (isGenerating, error and calls above are state of
  testResult,        \* it as well)
  isTesting,
  tests,             \* the calls of testGeneratedPrompt it made
  testedPrompt       \* the argument of the call that testResult is from

\* the state of App that a plan call on its own does not have
uiVars == <<generatedScenes, isGenerating, error, activeTab, tempApiKey,
            saveStatus, storedApiKey, calls>>

\* the state only the prompt and test variant of App has
testVars == <<userRequest, generatedPrompt, testResult, isTesting, tests,
              testedPrompt>>

vars == <<pieces, videoIdea, videoDuration, apiKey, engine, pc,
          totalSeconds, unitFound, promptsToGenerate, request, gatewayCalls,
          response, checks, raised, thrown, returned, uiVars, testVars>>

\* null, for error
NoMessage == <<>>

NoNumber == [k |-> "none", neg |-> FALSE, m |-> <<>>, e |-> 0]
NoRequest == [model |-> "", scenes |-> <<>>, seconds |-> <<>>, idea |-> <<>>]

\* what the template literal metaPrompt interpolates
MetaPrompt(idea, count) ==
  [model   |-> MODEL_NAME,
   scenes  |-> NumberToString(count),
   seconds |-> NumberToString(DblMulNat(count, 8)),
   idea    |-> idea]

Fresh ==
  /\ totalSeconds = NoNumber
  /\ unitFound = FALSE
  /\ promptsToGenerate = NoNumber
  /\ request = NoRequest
  /\ gatewayCalls = 0
  /\ response = NoResponse
  /\ checks = <<>>
  /\ raised = NoError
  /\ thrown = NoError
  /\ returned = NoValue
  /\ generatedScenes = NoValue
  /\ isGenerating = FALSE
  /\ error = NoMessage
  /\ activeTab = "architect"
  /\ tempApiKey = <<>>
  /\ saveStatus = "idle"
  /\ storedApiKey = <<>>
  /\ calls = <<>>
  /\ userRequest = <<>>
  /\ generatedPrompt = <<>>
  /\ testResult = <<>>
  /\ isTesting = FALSE
  /\ tests = <<>>
  /\ testedPrompt = <<>>

\* a plan call is about to be made
Init ==
  /\ videoIdea \in Ideas
  /\ videoDuration \in Durations
  /\ pieces = <<videoDuration>>
  /\ apiKey \in ApiKeys
  /\ engine \in Engines
  /\ pc = "start"
  /\ Fresh

\* generatePromptFromRequest from its start to the await, or to the
\* throw of the catch block
Call ==
  /\ pc = "start"
  /\ \E d \in {parseDurationToSeconds(videoDuration)} :
     \E count \in {MathCeil(DblDivPow2(d.totalSeconds, 3))} :
     \E err \in {IF d.threw THEN Err("Error", InvalidDurationMessage)
                 ELSE getAiClient(apiKey)} :
         /\ unitFound' = d.unitFound
         /\ totalSeconds' = IF d.threw THEN NoNumber ELSE d.totalSeconds
         /\ promptsToGenerate' = IF d.threw THEN NoNumber ELSE count
         /\ raised' = err
         /\ IF err # NoError
            THEN /\ thrown' = CatchBlock(err)
                 /\ pc' = "threw"
                 /\ UNCHANGED <<request, gatewayCalls>>
            ELSE /\ request' = MetaPrompt(videoIdea, count)
                 /\ gatewayCalls' = gatewayCalls + 1
                 /\ pc' = "awaiting"
                 /\ UNCHANGED thrown
  /\ UNCHANGED uiVars
  /\ UNCHANGED testVars
  /\ UNCHANGED <<pieces, videoIdea, videoDuration, apiKey, engine,
                 response, checks, returned>>

\* the gateway resolves, and generatePromptFromRequest runs to its end
GatewayResolve ==
  /\ pc = "awaiting"
  /\ \E resp \in Responses :
       \E res \in {CheckResponse(resp, engine)} :
           /\ response' = resp
           /\ checks' = res.checks
           /\ raised' = res.error
           /\ IF res.error # NoError
              THEN /\ thrown' = CatchBlock(res.error)
                   /\ pc' = "threw"
                   /\ UNCHANGED returned
              ELSE /\ returned' = res.value
                   /\ pc' = "returned"
                   /\ UNCHANGED thrown
  /\ UNCHANGED uiVars
  /\ UNCHANGED testVars
  /\ UNCHANGED <<pieces, videoIdea, videoDuration, apiKey, engine,
                 totalSeconds, unitFound, promptsToGenerate, request,
                 gatewayCalls>>

\* a rejection of the gateway answered by a second invocation
GatewayRejectRetry ==
  /\ pc = "awaiting"
  /\ \E err \in GatewayErrors : raised' = err
  /\ gatewayCalls' = gatewayCalls + 1
  /\ UNCHANGED uiVars
  /\ UNCHANGED testVars
  /\ UNCHANGED <<pieces, videoIdea, videoDuration, apiKey, engine, pc,
                 totalSeconds, unitFound, promptsToGenerate, request,
                 response, checks, thrown, returned>>

\* the gateway rejects, and the catch block runs
GatewayReject ==
  /\ pc = "awaiting"
  /\ \E err \in GatewayErrors :
       /\ raised' = err
       /\ thrown' = CatchBlock(err)
  /\ pc' = "threw"
  /\ UNCHANGED uiVars
  /\ UNCHANGED testVars
  /\ UNCHANGED <<pieces, videoIdea, videoDuration, apiKey, engine,
                 totalSeconds, unitFound, promptsToGenerate, request,
                 gatewayCalls, response, checks, returned>>

Next == Call \/ GatewayResolve \/ GatewayReject

Spec == Init /\ [][Next]_vars

(***************************************************************************)
(* The parser on its own                                                   *)
(***************************************************************************)
ParseInit ==
  /\ pieces \in PieceSeqs
  /\ videoDuration = Concat(pieces)
  /\ videoIdea = <<>>
  /\ apiKey = <<>>
  /\ engine = "plain"
  /\ pc = "parse"
  /\ Fresh

\* one call of parseDurationToSeconds
ParseDuration ==
  /\ pc = "parse"
  /\ \E d \in {parseDurationToSeconds(videoDuration)} :
         /\ unitFound' = d.unitFound
         /\ totalSeconds' = IF d.threw THEN NoNumber ELSE d.totalSeconds
         /\ raised' = IF d.threw THEN Err("Error", InvalidDurationMessage)
                      ELSE NoError
  /\ pc' = "parsed"
  /\ UNCHANGED uiVars
  /\ UNCHANGED testVars
  /\ UNCHANGED <<pieces, videoIdea, videoDuration, apiKey, engine,
                 promptsToGenerate, request, gatewayCalls, response, checks,
                 thrown, returned>>

ParseNext == ParseDuration

ParseSpec == ParseInit /\ [][ParseNext]_vars

(***************************************************************************)
(* App: the scene-planning user interface.  One step is one task of the    *)
(* event loop: the effect of the first render, a user event with its       *)
(* handler, or the settling of the gateway; the part of                    *)
(* handleGeneratePrompt after its await runs next, before any other task.  *)
(* handleCopy and handleDownloadJson touch none of the state below and are *)
(* left out.                                                               *)
(***************************************************************************)
\* the most calls of handleGeneratePrompt in a run
MaxCalls == 2

UIIdeas == Ideas

UIDurations == {<<>>, <<" ">>, <<"8">>, <<"a", "b", "c">>}

\* what generateContent resolves with in the runs of App
UIResponses ==
  { [hasText |-> TRUE, text |-> ObjectText({1})],
    [hasText |-> TRUE, text |-> ObjectText({4, 5})],
    [hasText |-> TRUE, text |-> <<"[", "1", ",", "2", ",", "3", "]">>],
    [hasText |-> TRUE, text |-> <<"n", "o", "t", " ", "j", "s", "o", "n">>] }

NeedKeyMessage == <<"Please set your API key in the Settings tab first.">>
NeedInputMessage ==
  <<"Please provide both a video idea and the desired duration.">>
UnknownGenerationMessage ==
  <<"An unknown error occurred during prompt generation.">>

\* a call of generatePromptFromRequest: "awaiting" the gateway, "settled"
\* (its promise resolved with returned or rejected with thrown, the
\* handler not yet resumed), "done" (the handler has finished)
CallRecord(st, err, val) == [st |-> st, thrown |-> err, returned |-> val]

\* generatePromptFromRequest from its start to the await
StartCall(idea, duration, key) ==
  \E d \in {parseDurationToSeconds(duration)} :
  \E err \in {IF d.threw THEN Err("Error", InvalidDurationMessage)
              ELSE getAiClient(key)} :
    calls' = Append(calls,
               IF err # NoError
               THEN CallRecord("settled", CatchBlock(err), NoValue)
               ELSE CallRecord("awaiting", NoError, NoValue))

\* the handler of some call is to resume
ResumePending == \E i \in 1..Len(calls) : calls[i].st = "settled"

\* the calls whose handler has not finished
InFlight == {i \in 1..Len(calls) : calls[i].st # "done"}

\* what localStorage holds under gemini_api_key when App is mounted:
\* <<>> stands for no item
StoredKeys == {<<>>, <<" ">>, <<"k", "e", "y">>}

\* the first render: the state of lines 9 to 18, the effect of lines 20 to
\* 26 not yet run
UIInit ==
  /\ pieces = <<>>
  /\ videoIdea = <<>>
  /\ videoDuration = <<>>
  /\ storedApiKey \in StoredKeys
  /\ apiKey = <<>>
  /\ tempApiKey = <<>>
  /\ engine \in Engines
  /\ pc = "render"
  /\ totalSeconds = NoNumber
  /\ unitFound = FALSE
  /\ promptsToGenerate = NoNumber
  /\ request = NoRequest
  /\ gatewayCalls = 0
  /\ response = NoResponse
  /\ checks = <<>>
  /\ raised = NoError
  /\ thrown = NoError
  /\ returned = NoValue
  /\ generatedScenes = NoValue
  /\ isGenerating = FALSE
  /\ error = NoMessage
  /\ activeTab = "architect"
  /\ saveStatus = "idle"
  /\ calls = <<>>
  /\ userRequest = <<>>
  /\ generatedPrompt = <<>>
  /\ testResult = <<>>
  /\ isTesting = FALSE
  /\ tests = <<>>
  /\ testedPrompt = <<>>

planVars == <<pieces, engine, pc, totalSeconds, unitFound,
              promptsToGenerate, request, gatewayCalls, response, checks,
              raised, thrown, returned>>

\* the effect of the first render: the key localStorage holds, if it holds
\* one, becomes apiKey and tempApiKey
MountEffect ==
  /\ ~ResumePending
  /\ pc = "render"
  /\ pc' = "ui"
  /\ IF storedApiKey # <<>>
     THEN /\ apiKey' = storedApiKey
          /\ tempApiKey' = storedApiKey
     ELSE UNCHANGED <<apiKey, tempApiKey>>
  /\ UNCHANGED <<videoIdea, videoDuration, generatedScenes, isGenerating,
                 error, activeTab, saveStatus, storedApiKey, calls>>
  /\ UNCHANGED <<pieces, engine, totalSeconds, unitFound, promptsToGenerate,
                 request, gatewayCalls, response, checks, raised, thrown,
                 returned>>
  /\ UNCHANGED testVars

\* disabled of the two inputs
InputDisabled == isGenerating \/ apiKey = <<>>

\* onChange of the video idea
SetVideoIdea ==
  /\ ~ResumePending
  /\ activeTab = "architect"
  /\ ~InputDisabled
  /\ \E v \in UIIdeas : videoIdea' = v
  /\ UNCHANGED <<videoDuration, apiKey, generatedScenes, isGenerating, error,
                 activeTab, tempApiKey, saveStatus, storedApiKey, calls>>
  /\ UNCHANGED planVars
  /\ UNCHANGED testVars

\* onChange of the duration
SetVideoDuration ==
  /\ ~ResumePending
  /\ activeTab = "architect"
  /\ ~InputDisabled
  /\ \E v \in UIDurations : videoDuration' = v
  /\ UNCHANGED <<videoIdea, apiKey, generatedScenes, isGenerating, error,
                 activeTab, tempApiKey, saveStatus, storedApiKey, calls>>
  /\ UNCHANGED planVars
  /\ UNCHANGED testVars

\* onClick of a tab button
SetActiveTab ==
  /\ ~ResumePending
  /\ \E t \in {"architect", "settings"} : activeTab' = t
  /\ UNCHANGED <<videoIdea, videoDuration, apiKey, generatedScenes,
                 isGenerating, error, tempApiKey, saveStatus, storedApiKey,
                 calls>>
  /\ UNCHANGED planVars
  /\ UNCHANGED testVars

\* onChange of the key input
SetTempApiKey ==
  /\ ~ResumePending
  /\ activeTab = "settings"
  /\ \E v \in ApiKeys : tempApiKey' = v
  /\ UNCHANGED <<videoIdea, videoDuration, apiKey, generatedScenes,
                 isGenerating, error, activeTab, saveStatus, storedApiKey,
                 calls>>
  /\ UNCHANGED planVars
  /\ UNCHANGED testVars

handleSaveApiKey ==
  /\ ~ResumePending
  /\ activeTab = "settings"
  /\ IF trim(tempApiKey) # <<>>
     THEN /\ storedApiKey' = tempApiKey
          /\ apiKey' = tempApiKey
          /\ saveStatus' = "success"
     ELSE /\ saveStatus' = "error"
          /\ UNCHANGED <<storedApiKey, apiKey>>
  /\ UNCHANGED <<videoIdea, videoDuration, generatedScenes, isGenerating,
                 error, activeTab, tempApiKey, calls>>
  /\ UNCHANGED planVars
  /\ UNCHANGED testVars

\* the timeout set by handleSaveApiKey
SaveStatusTimeout ==
  /\ ~ResumePending
  /\ saveStatus # "idle"
  /\ saveStatus' = "idle"
  /\ UNCHANGED <<videoIdea, videoDuration, apiKey, generatedScenes,
                 isGenerating, error, activeTab, tempApiKey, storedApiKey,
                 calls>>
  /\ UNCHANGED planVars
  /\ UNCHANGED testVars

\* disabled of the generate button, without its test of isGenerating
GenerateDisabledWhenIdle ==
  \/ trim(videoIdea) = <<>>
  \/ trim(videoDuration) = <<>>
  \/ apiKey = <<>>

\* disabled of the generate button
GenerateDisabled ==
  \/ isGenerating
  \/ trim(videoIdea) = <<>>
  \/ trim(videoDuration) = <<>>
  \/ apiKey = <<>>

\* handleGeneratePrompt without its setGeneratedScenes(null)
handleGeneratePromptKeepScenes ==
  /\ ~ResumePending
  /\ activeTab = "architect"
  /\ ~GenerateDisabled
  /\ Len(calls) < MaxCalls
  /\ IF apiKey = <<>>
     THEN /\ error' = NeedKeyMessage
          /\ UNCHANGED <<isGenerating, generatedScenes, calls>>
     ELSE IF trim(videoIdea) = <<>> \/ trim(videoDuration) = <<>>
     THEN /\ error' = NeedInputMessage
          /\ UNCHANGED <<isGenerating, generatedScenes, calls>>
     ELSE /\ isGenerating' = TRUE
          /\ error' = NoMessage
          /\ UNCHANGED generatedScenes
          /\ StartCall(videoIdea, videoDuration, apiKey)
  /\ UNCHANGED <<videoIdea, videoDuration, apiKey, activeTab, tempApiKey,
                 saveStatus, storedApiKey>>
  /\ UNCHANGED planVars
  /\ UNCHANGED testVars

\* onClick of the generate button: handleGeneratePrompt up to its await
handleGeneratePrompt ==
  /\ ~ResumePending
  /\ activeTab = "architect"
  /\ ~GenerateDisabled
  /\ Len(calls) < MaxCalls
  /\ IF apiKey = <<>>
     THEN /\ error' = NeedKeyMessage
          /\ UNCHANGED <<isGenerating, generatedScenes, calls>>
     ELSE IF trim(videoIdea) = <<>> \/ trim(videoDuration) = <<>>
     THEN /\ error' = NeedInputMessage
          /\ UNCHANGED <<isGenerating, generatedScenes, calls>>
     ELSE /\ isGenerating' = TRUE
          /\ error' = NoMessage
          /\ generatedScenes' = NoValue
          /\ StartCall(videoIdea, videoDuration, apiKey)
  /\ UNCHANGED <<videoIdea, videoDuration, apiKey, activeTab, tempApiKey,
                 saveStatus, storedApiKey>>
  /\ UNCHANGED planVars
  /\ UNCHANGED testVars

\* generateContent of call i resolves, and generatePromptFromRequest runs
\* to its end
GatewayResolves(i) ==
  /\ ~ResumePending
  /\ i \in 1..Len(calls)
  /\ calls[i].st = "awaiting"
  /\ \E resp \in UIResponses :
     \E c \in {CheckResponse(resp, engine)} :
       calls' = [calls EXCEPT ![i] =
                   IF c.error # NoError
                   THEN CallRecord("settled", CatchBlock(c.error), NoValue)
                   ELSE CallRecord("settled", NoError, c.value)]
  /\ UNCHANGED <<videoIdea, videoDuration, apiKey, generatedScenes,
                 isGenerating, error, activeTab, tempApiKey, saveStatus,
                 storedApiKey>>
  /\ UNCHANGED planVars
  /\ UNCHANGED testVars

\* generateContent of call i rejects, and the catch block runs
GatewayRejects(i) ==
  /\ ~ResumePending
  /\ i \in 1..Len(calls)
  /\ calls[i].st = "awaiting"
  /\ \E e \in GatewayErrors :
       calls' = [calls EXCEPT ![i] =
                   CallRecord("settled", CatchBlock(e), NoValue)]
  /\ UNCHANGED <<videoIdea, videoDuration, apiKey, generatedScenes,
                 isGenerating, error, activeTab, tempApiKey, saveStatus,
                 storedApiKey>>
  /\ UNCHANGED planVars
  /\ UNCHANGED testVars

\* the message handleGeneratePrompt shows for a caught value
ShownMessage(err) ==
  IF err.name = "NonError" THEN UnknownGenerationMessage ELSE err.message

\* handleGeneratePrompt after its await, without the finally block
HandlerResumeNoFinally(i) ==
  /\ i \in 1..Len(calls)
  /\ calls[i].st = "settled"
  /\ IF calls[i].thrown = NoError
     THEN /\ generatedScenes' = calls[i].returned
          /\ UNCHANGED error
     ELSE /\ error' = ShownMessage(calls[i].thrown)
          /\ UNCHANGED generatedScenes
  /\ UNCHANGED isGenerating
  /\ calls' = [calls EXCEPT ![i].st = "done"]
  /\ UNCHANGED <<videoIdea, videoDuration, apiKey, activeTab, tempApiKey,
                 saveStatus, storedApiKey>>
  /\ UNCHANGED planVars
  /\ UNCHANGED testVars

\* handleGeneratePrompt after its await: setGeneratedScenes or setError,
\* then the finally block
HandlerResume(i) ==
  /\ i \in 1..Len(calls)
  /\ calls[i].st = "settled"
  /\ IF calls[i].thrown = NoError
     THEN /\ generatedScenes' = calls[i].returned
          /\ UNCHANGED error
     ELSE /\ error' = ShownMessage(calls[i].thrown)
          /\ UNCHANGED generatedScenes
  /\ isGenerating' = FALSE
  /\ calls' = [calls EXCEPT ![i].st = "done"]
  /\ UNCHANGED <<videoIdea, videoDuration, apiKey, activeTab, tempApiKey,
                 saveStatus, storedApiKey>>
  /\ UNCHANGED planVars
  /\ UNCHANGED testVars

Resume == \E i \in 1..MaxCalls : HandlerResume(i)

UINext ==
  \/ MountEffect
  \/ SetVideoIdea
  \/ SetVideoDuration
  \/ SetActiveTab
  \/ SetTempApiKey
  \/ handleSaveApiKey
  \/ SaveStatusTimeout
  \/ handleGeneratePrompt
  \/ \E i \in 1..MaxCalls : GatewayResolves(i)
  \/ \E i \in 1..MaxCalls : GatewayRejects(i)
  \/ Resume

UISpec == UIInit /\ [][UINext]_vars

\* the part of the handler after the await is a microtask of a promise
\* that has settled: the event loop runs it
UILiveSpec == UIInit /\ [][UINext]_vars /\ WF_vars(Resume)

(***************************************************************************)
(* The prompt and test variant of App.  It holds no key and calls its two  *)
(* services with one argument, the request or the prompt.  The services    *)
(* are those of geminiService.ts, whose second parameter is the key: it    *)
(* is undefined in every call this variant makes, getAiClient throws, and  *)
(* the promise of the call is rejected before the gateway is asked.  The   *)
(* continuation of the handler is then the next thing to run.  handleCopy  *)
(* touches none of the state below.                                        *)
(***************************************************************************)
\* the most calls of handleTestPrompt in a run
MaxTests == 2

FailedPromptPrefix == <<"Failed to generate prompt: ">>
UnknownPromptMessage ==
  <<"An unknown error occurred while generating the prompt.">>
FailedTestPrefix == <<"Failed to test prompt: ">>
UnknownTestMessage ==
  <<"An unknown error occurred while testing the prompt.">>
NeedRequestMessage == <<"Please enter a request to generate a prompt.">>
NeedPromptMessage == <<"Please generate a prompt before testing.">>
UnknownTestingMessage ==
  <<"An unknown error occurred while testing the prompt.">>

\* the catch block of the prompt service
CatchBlockPrompt(e) ==
  IF e.name # "NonError" THEN
    (IF includes(e.message, ApiKeyPhrase)
     THEN Err("Error", InvalidKeyMessage)
     ELSE Err("Error", FailedPromptPrefix \o e.message))
  ELSE Err("Error", UnknownPromptMessage)

\* the catch block of testGeneratedPrompt
CatchBlockTest(e) ==
  IF e.name # "NonError" THEN
    (IF includes(e.message, ApiKeyPhrase)
     THEN Err("Error", InvalidKeyMessage)
     ELSE Err("Error", FailedTestPrefix \o e.message))
  ELSE Err("Error", UnknownTestMessage)

\* what is typed into the request
UserRequests ==
  { <<>>, <<" ">>, <<"a">>, <<"b">>, <<" ", "a", " ">>,
    <<"a", " ", "c", "a", "t">> }

\* the texts generateContent resolves with for a prompt request
PromptTexts == {<<"p">>, <<" ", "q", " ">>, <<" ">>}

\* the texts generateContent resolves with for a prompt under test
TestTexts == {<<"r">>, <<"s", " ">>, <<>>}

\* a call of generatePromptFromRequest, with its argument
PromptRecord(st, req, err, val) ==
  [st |-> st, request |-> req, thrown |-> err, returned |-> val]

\* a call of testGeneratedPrompt, with its argument
TestRecord(st, prompt, err, val) ==
  [st |-> st, prompt |-> prompt, thrown |-> err, returned |-> val]

\* the value of the parameter apiKey in a call that passes one argument:
\* undefined, which !apiKey takes as it takes the empty string
NoKeyArgument == <<>>

\* generatePromptFromRequest without the call of getAiClient
StartPromptCallUnchecked(req, key) ==
  PromptRecord("awaiting", req, NoError, <<>>)

\* generatePromptFromRequest of geminiService.ts from its start to its
\* await
StartPromptCall(req, key) ==
  IF getAiClient(key) # NoError
  THEN PromptRecord("settled", req, CatchBlockPrompt(getAiClient(key)), <<>>)
  ELSE PromptRecord("awaiting", req, NoError, <<>>)

\* testGeneratedPrompt of geminiService.ts from its start to its await
StartTestCall(prompt, key) ==
  IF getAiClient(key) # NoError
  THEN TestRecord("settled", prompt, CatchBlockTest(getAiClient(key)), <<>>)
  ELSE TestRecord("awaiting", prompt, NoError, <<>>)

\* the state of the scene-planning App that this variant does not have
architectVars == <<videoIdea, videoDuration, generatedScenes, activeTab,
                   tempApiKey, saveStatus, storedApiKey>>

PromptInit ==
  /\ pieces = <<>>
  /\ videoIdea = <<>>
  /\ videoDuration = <<>>
  /\ storedApiKey = <<>>
  /\ apiKey = <<>>
  /\ tempApiKey = <<>>
  /\ engine = "plain"
  /\ pc = "prompt"
  /\ totalSeconds = NoNumber
  /\ unitFound = FALSE
  /\ promptsToGenerate = NoNumber
  /\ request = NoRequest
  /\ gatewayCalls = 0
  /\ response = NoResponse
  /\ checks = <<>>
  /\ raised = NoError
  /\ thrown = NoError
  /\ returned = NoValue
  /\ generatedScenes = NoValue
  /\ isGenerating = FALSE
  /\ error = NoMessage
  /\ activeTab = "architect"
  /\ saveStatus = "idle"
  /\ calls = <<>>
  /\ userRequest = <<>>
  /\ generatedPrompt = <<>>
  /\ testResult = <<>>
  /\ isTesting = FALSE
  /\ tests = <<>>
  /\ testedPrompt = <<>>

\* the part after the await of some handler is to run
ContinuationPending ==
  \/ \E i \in 1..Len(calls) : calls[i].st = "settled"
  \/ \E i \in 1..Len(tests) : tests[i].st = "settled"

\* onChange of the request
SetUserRequest ==
  /\ ~ContinuationPending
  /\ ~isGenerating
  /\ \E v \in UserRequests : userRequest' = v
  /\ UNCHANGED <<generatedPrompt, testResult, isTesting, tests, testedPrompt,
                 isGenerating, error, calls, apiKey>>
  /\ UNCHANGED <<planVars, architectVars>>

\* onClick of the generate button: handleGeneratePrompt of this variant up
\* to its await
handleGeneratePrompt_001 ==
  /\ ~ContinuationPending
  /\ ~(isGenerating \/ trim(userRequest) = <<>>)
  /\ Len(calls) < MaxCalls
  /\ IF trim(userRequest) = <<>>
     THEN /\ error' = NeedRequestMessage
          /\ UNCHANGED <<isGenerating, generatedPrompt, testResult, calls>>
     ELSE /\ isGenerating' = TRUE
          /\ error' = NoMessage
          /\ generatedPrompt' = <<>>
          /\ testResult' = <<>>
          /\ calls' = Append(calls, StartPromptCall(userRequest, NoKeyArgument))
  /\ UNCHANGED <<userRequest, isTesting, tests, testedPrompt, apiKey>>
  /\ UNCHANGED <<planVars, architectVars>>

\* generateContent of prompt call i resolves
PromptResolves(i) ==
  /\ ~ContinuationPending
  /\ i \in 1..Len(calls)
  /\ calls[i].st = "awaiting"
  /\ \E t \in PromptTexts :
       calls' = [calls EXCEPT ![i] =
                   PromptRecord("settled", calls[i].request, NoError, trim(t))]
  /\ UNCHANGED <<userRequest, generatedPrompt, testResult, isTesting, tests,
                 testedPrompt, isGenerating, error, apiKey>>
  /\ UNCHANGED <<planVars, architectVars>>

\* generateContent of prompt call i rejects
PromptRejects(i) ==
  /\ ~ContinuationPending
  /\ i \in 1..Len(calls)
  /\ calls[i].st = "awaiting"
  /\ \E e \in GatewayErrors :
       calls' = [calls EXCEPT ![i] =
                   PromptRecord("settled", calls[i].request,
                                CatchBlockPrompt(e), <<>>)]
  /\ UNCHANGED <<userRequest, generatedPrompt, testResult, isTesting, tests,
                 testedPrompt, isGenerating, error, apiKey>>
  /\ UNCHANGED <<planVars, architectVars>>

\* handleGeneratePrompt of this variant after its await
PromptResume(i) ==
  /\ i \in 1..Len(calls)
  /\ calls[i].st = "settled"
  /\ IF calls[i].thrown = NoError
     THEN /\ generatedPrompt' = calls[i].returned
          /\ UNCHANGED error
     ELSE /\ error' = ShownMessage(calls[i].thrown)
          /\ UNCHANGED generatedPrompt
  /\ isGenerating' = FALSE
  /\ calls' = [calls EXCEPT ![i].st = "done"]
  /\ UNCHANGED <<userRequest, testResult, isTesting, tests, testedPrompt,
                 apiKey>>
  /\ UNCHANGED <<planVars, architectVars>>

\* onClick of the test button: handleTestPrompt up to its await
handleTestPrompt ==
  /\ ~ContinuationPending
  /\ ~(isTesting \/ trim(generatedPrompt) = <<>>)
  /\ Len(tests) < MaxTests
  /\ IF trim(generatedPrompt) = <<>>
     THEN /\ error' = NeedPromptMessage
          /\ UNCHANGED <<isTesting, testResult, tests>>
     ELSE /\ isTesting' = TRUE
          /\ error' = NoMessage
          /\ testResult' = <<>>
          /\ tests' = Append(tests, StartTestCall(generatedPrompt, NoKeyArgument))
  /\ UNCHANGED <<userRequest, generatedPrompt, testedPrompt, isGenerating,
                 calls, apiKey>>
  /\ UNCHANGED <<planVars, architectVars>>

\* generateContent of test call i resolves
TestResolves(i) ==
  /\ ~ContinuationPending
  /\ i \in 1..Len(tests)
  /\ tests[i].st = "awaiting"
  /\ \E t \in TestTexts :
       tests' = [tests EXCEPT ![i] =
                   TestRecord("settled", tests[i].prompt, NoError, trim(t))]
  /\ UNCHANGED <<userRequest, generatedPrompt, testResult, isTesting,
                 testedPrompt, isGenerating, error, calls, apiKey>>
  /\ UNCHANGED <<planVars, architectVars>>

\* generateContent of test call i rejects
TestRejects(i) ==
  /\ ~ContinuationPending
  /\ i \in 1..Len(tests)
  /\ tests[i].st = "awaiting"
  /\ \E e \in GatewayErrors :
       tests' = [tests EXCEPT ![i] =
                   TestRecord("settled", tests[i].prompt, CatchBlockTest(e),
                              <<>>)]
  /\ UNCHANGED <<userRequest, generatedPrompt, testResult, isTesting,
                 testedPrompt, isGenerating, error, calls, apiKey>>
  /\ UNCHANGED <<planVars, architectVars>>

\* the message handleTestPrompt shows for a caught value
ShownTestMessage(err) ==
  IF err.name = "NonError" THEN UnknownTestingMessage ELSE err.message

\* handleTestPrompt after its await
TestResume(i) ==
  /\ i \in 1..Len(tests)
  /\ tests[i].st = "settled"
  /\ IF tests[i].thrown = NoError
     THEN /\ testResult' = tests[i].returned
          /\ testedPrompt' = tests[i].prompt
          /\ UNCHANGED error
     ELSE /\ error' = ShownTestMessage(tests[i].thrown)
          /\ UNCHANGED <<testResult, testedPrompt>>
  /\ isTesting' = FALSE
  /\ tests' = [tests EXCEPT ![i].st = "done"]
  /\ UNCHANGED <<userRequest, generatedPrompt, isGenerating, calls, apiKey>>
  /\ UNCHANGED <<planVars, architectVars>>

\* the steps that have no state to be taken in: no call ever waits for the
\* gateway and the test button is never enabled (C16 checks both)
NeverEnabled ==
  \/ handleTestPrompt
  \/ \E i \in 1..MaxCalls : PromptResolves(i) \/ PromptRejects(i)
  \/ \E i \in 1..MaxTests : TestResolves(i) \/ TestRejects(i) \/ TestResume(i)

PromptNext ==
  \/ SetUserRequest
  \/ handleGeneratePrompt_001
  \/ \E i \in 1..MaxCalls : PromptResume(i)

PromptSpec == PromptInit /\ [][PromptNext]_vars

(***************************************************************************)
(* The error kinds of the specification, as the errors of the code         *)
(***************************************************************************)
InvalidDurationError == Err("Error", InvalidDurationMessage)
MissingCredentialError == Err("Error", MissingKeyMessage)
UnexpectedShapeError == Err("Error", UnexpectedShapeMessage)
MissingSceneKeysError == Err("Error", MissingSceneKeysMessage)
IsMalformedResponseError(e) == e.name = "SyntaxError"

\* the call has ended
Ended == pc \in {"returned", "threw"}

\* the value of the text the gateway resolved with
ResponseValue == JSONparse(trim(response.text))

(***************************************************************************)
(* C1                                                                      *)
(***************************************************************************)
\* c is the integer n >= 1 with 8 * (n - 1) < d <= 8 * n
IsCeilOfEighth(d, c) ==
  /\ c.k = "num"
  /\ DblLeq(DblFromNat(1), c)
  /\ DblLess(DblAdd(DblMulNat(c, 8), [DblFromNat(8) EXCEPT !.neg = TRUE]), d)
  /\ DblLeq(d, DblMulNat(c, 8))

\* C1: for every duration d the parser accepts, the scene count put in
\* the request is ceil(d / 8): 1 on (0, 8], 2 on (8, 16], never below 1.
C1_SceneCountIsCeil ==
  request # NoRequest =>
    /\ IsCeilOfEighth(totalSeconds, promptsToGenerate)
    /\ request.scenes = NumberToString(promptsToGenerate)

(***************************************************************************)
(* C2                                                                      *)
(***************************************************************************)
\* C2 as stated: a plan call with an empty credential fails with
\* MissingCredentialError and never invokes the gateway, for every idea
\* and every duration string.
C2_EmptyKeyAlwaysMissingCredential ==
  (pc # "start" /\ apiKey = <<>>) =>
    /\ pc = "threw"
    /\ raised = MissingCredentialError
    /\ gatewayCalls = 0

\* C2 amended: a plan call with an empty credential fails and never
\* invokes the gateway; the error raised is MissingCredentialError when
\* the parser accepts the duration, and the parser's InvalidDurationError
\* when it does not, as the duration is parsed first.
C2_EmptyKeyFailsBeforeGateway ==
  (pc # "start" /\ apiKey = <<>>) =>
    /\ pc = "threw"
    /\ gatewayCalls = 0
    /\ request = NoRequest
    /\ raised = IF parseDurationToSeconds(videoDuration).threw
                THEN InvalidDurationError
                ELSE MissingCredentialError

\* a call with an empty credential and an accepted duration has failed
C2_Witness ==
  /\ pc = "threw"
  /\ apiKey = <<>>
  /\ totalSeconds # NoNumber
  /\ raised = MissingCredentialError
  /\ gatewayCalls = 0

(***************************************************************************)
(* C3                                                                      *)
(***************************************************************************)
\* C3: a plan call invokes the gateway at most once; once an error is
\* raised (gateway failure, unparseable response, rejected response) the
\* call has ended with an error for its caller and with no value.
C3_AtMostOneGatewayCall ==
  /\ gatewayCalls <= 1
  /\ pc = "awaiting" => gatewayCalls = 1 /\ raised = NoError
  /\ raised # NoError => pc = "threw" /\ thrown # NoError /\ returned = NoValue
  /\ pc = "returned" => gatewayCalls = 1 /\ thrown = NoError

\* the gateway was invoked once and the call failed after it
C3_Witness ==
  /\ pc = "threw"
  /\ gatewayCalls = 1
  /\ raised \in GatewayErrors \/ IsMalformedResponseError(raised)
       \/ raised = MissingSceneKeysError

(***************************************************************************)
(* C4                                                                      *)
(***************************************************************************)
\* C4: the checks run in the order syntax, shape, keys; a text that is
\* not valid JSON is rejected with MalformedResponseError before the shape
\* check; a text whose value is an array, null or a primitive is rejected
\* with UnexpectedShapeError before the key check.
C4_ChecksInOrder ==
  (Ended /\ response.hasText) =>
    /\ \E n \in 1..3 : checks = SubSeq(<<"syntax", "shape", "keys">>, 1, n)
    /\ ~ResponseValue.ok =>
         /\ pc = "threw"
         /\ IsMalformedResponseError(raised)
         /\ checks = <<"syntax">>
    /\ (ResponseValue.ok /\ ResponseValue.v.t # "obj") =>
         /\ pc = "threw"
         /\ raised = UnexpectedShapeError
         /\ checks = <<"syntax", "shape">>
    /\ IsMalformedResponseError(raised) => ~ResponseValue.ok
    /\ raised = UnexpectedShapeError => ResponseValue.v.t # "obj"

\* an array was rejected by the shape check
C4_Witness ==
  /\ pc = "threw"
  /\ response.hasText
  /\ ResponseValue.ok
  /\ ResponseValue.v.t = "arr"
  /\ Len(ResponseValue.v.v) > 0
  /\ raised = UnexpectedShapeError

(***************************************************************************)
(* C5                                                                      *)
(***************************************************************************)
\* k is scene_<positive integer>
IsPositiveSceneKey(k) ==
  /\ StartsWithAt(k, 1, ScenePrefix)
  /\ Len(k) > Len(ScenePrefix)
  /\ \A i \in (Len(ScenePrefix) + 1)..Len(k) : IsDigit(k[i])
  /\ \E i \in (Len(ScenePrefix) + 1)..Len(k) : k[i] # "0"

\* C5: a parsed non-array object is accepted if and only if one of its
\* keys is scene_<positive integer>; otherwise it is rejected with
\* MissingSceneKeysError.
C5_AcceptedIffPositiveSceneKey ==
  (Ended /\ response.hasText /\ ResponseValue.ok /\ ResponseValue.v.t = "obj") =>
    IF \E i \in 1..Len(ResponseValue.v.v) :
         IsPositiveSceneKey(ResponseValue.v.v[i][1])
    THEN pc = "returned"
    ELSE pc = "threw" /\ raised = MissingSceneKeysError

(***************************************************************************)
(* C6                                                                      *)
(***************************************************************************)
SceneKeyOf(i) == ScenePrefix \o NatDigits(BFromInt(i))

KeySet(val) == {ObjectKeys(val)[i] : i \in 1..Len(ObjectKeys(val))}

\* C6 as stated: the keys of every SceneMap returned are scene_1 to
\* scene_n for some n >= 1, whatever object the gateway returned.
C6_KeysContiguous ==
  pc = "returned" =>
    \E n \in 1..Len(returned.v) :
      KeySet(returned) = {SceneKeyOf(i) : i \in 1..n}

\* C6 amended: every SceneMap returned is the object the gateway's text
\* denotes, unchanged: a non-array object with at least one key of the
\* form scene_<digits>; its other keys are not constrained.
C6_ReturnsGatewayObject ==
  pc = "returned" =>
    /\ ResponseValue.ok
    /\ returned = ResponseValue.v
    /\ returned.t = "obj"
    /\ \E k \in KeySet(returned) : IsSceneKey(k)

\* an object with a gap and a key that is no scene key was returned
C6_Witness ==
  /\ pc = "returned"
  /\ SceneKeyOf(1) \notin KeySet(returned)
  /\ \E k \in KeySet(returned) : ~IsSceneKey(k)

(***************************************************************************)
(* Duration strings as the specification describes them                    *)
(***************************************************************************)
IsLetter(c) ==
  \E j \in 1..Len(UpperChars) : UpperChars[j] = c \/ LowerChars[j] = c

\* length of the number cs starts with: digits, then possibly a decimal
\* point or comma and more digits
NumberLen(cs) ==
  LET n1 == DigitRun(cs, 1)
      n2 == IF CharAt(cs, n1 + 1) \in {".", ","} THEN DigitRun(cs, n1 + 2)
            ELSE 0
  IN  IF n1 > 0 /\ n2 > 0 THEN n1 + 1 + n2 ELSE n1

\* what follows the number and the white space after it
WordPart(cs) ==
  SubSeq(cs, NumberLen(cs) + SpaceRun(cs, NumberLen(cs) + 1) + 1, Len(cs))

IsUnitWord(w) ==
  \E k \in 1..Len(UnitAlternatives) : UnitAlternatives[k] = toLowerCase(w)

IsWord(w) == w # <<>> /\ \A i \in 1..Len(w) : IsLetter(w[i])

\* cs is <number><optional white space><unit>
IsPairText(cs) == NumberLen(cs) > 0 /\ IsUnitWord(WordPart(cs))

\* cs is <number><optional white space><word>, the word not a unit
IsNumberThenOtherWord(cs) ==
  NumberLen(cs) > 0 /\ IsWord(WordPart(cs)) /\ ~IsUnitWord(WordPart(cs))

\* the seconds a pair stands for, in thousandths (at most three decimals)
PairMillis(cs) ==
  LET n1    == DigitRun(cs, 1)
      n2    == NumberLen(cs) - n1 - 1
      whole == DigitsToInt(SubSeq(cs, 1, n1), 0)
      frac  == IF n2 > 0
               THEN DigitsToInt(SubSeq(cs, n1 + 2, n1 + 1 + n2), 0) * Pow10(3 - n2)
               ELSE 0
  IN  (whole * 1000 + frac)
        * (IF IsMinuteUnit(toLowerCase(WordPart(cs))) THEN 60 ELSE 1)

RECURSIVE SumMillis(_)
SumMillis(ps) ==
  IF ps = <<>> THEN 0 ELSE PairMillis(Head(ps)) + SumMillis(Tail(ps))

\* x seconds differ from millis thousandths by less than a thousandth
WithinMilli(x, millis) ==
  \E diff \in {DblAdd(DblMulNat(x, 1000),
                      [DblFromNat(millis) EXCEPT !.neg = TRUE])} :
    /\ DblLess(diff, DblFromNat(1))
    /\ DblLess([DblFromNat(1) EXCEPT !.neg = TRUE], diff)

\* cs is one pair of value zero, or a minus sign and then one pair
ExpressesNonPositive(cs) ==
  \/ IsPairText(cs) /\ PairMillis(cs) = 0
  \/ CharAt(cs, 1) = "-" /\ IsPairText(SubSeq(cs, 2, Len(cs)))

\* cs as a whole is a number: an optional sign, digits, possibly a
\* decimal point and digits
IsBareNumber(cs) ==
  LET p  == IF CharAt(cs, 1) \in {"+", "-"} THEN 2 ELSE 1
      n1 == DigitRun(cs, p)
      n2 == IF CharAt(cs, p + n1) = "." THEN DigitRun(cs, p + n1 + 1) ELSE 0
  IN  /\ n1 + n2 > 0
      /\ Len(cs) = p - 1 + n1 + (IF CharAt(cs, p + n1) = "." THEN 1 + n2 ELSE 0)

(***************************************************************************)
(* C7                                                                      *)
(***************************************************************************)
\* C7: the parser fails with InvalidDurationError for every input that
\* expresses a non-positive duration ("0s", "-5s"), and every value it
\* returns is finite and greater than zero.
C7_NonPositiveRejected ==
  pc = "parsed" =>
    /\ totalSeconds # NoNumber =>
         /\ totalSeconds.k = "num"
         /\ DblLess(Zero(FALSE), totalSeconds)
    /\ ExpressesNonPositive(videoDuration) =>
         /\ totalSeconds = NoNumber
         /\ raised = InvalidDurationError

(***************************************************************************)
(* C8                                                                      *)
(***************************************************************************)
\* C8: for an input made of well-formed pairs the parser returns the sum
\* of number * 60 over the minute pairs and of number over the second
\* pairs, in every order of the pairs and every letter case of the units.
C8_SumOfPairs ==
  (/\ pc = "parsed"
   /\ pieces # <<>>
   /\ \A i \in 1..Len(pieces) : IsPairText(pieces[i])
   /\ SumMillis(pieces) > 0) =>
    /\ totalSeconds # NoNumber
    /\ WithinMilli(totalSeconds, SumMillis(pieces))

(***************************************************************************)
(* C9                                                                      *)
(***************************************************************************)
\* C9: a number followed by a word that only begins with a unit and is
\* not itself a unit ("500ms", "5 months", "3 sheep") is not counted as a
\* pair.
C9_UnitIsWholeWord ==
  (pc = "parsed" /\ IsNumberThenOtherWord(videoDuration)) => ~unitFound

(***************************************************************************)
(* C10                                                                     *)
(***************************************************************************)
\* C10: with no pair in the normalized input the parser returns a value
\* only if the normalized input as a whole is a number; "45abc" and
\* "12:30" fail with InvalidDurationError.
C10_FallbackWholeString ==
  (pc = "parsed" /\ ~unitFound) =>
    IF IsBareNumber(CleanStr(videoDuration))
    THEN totalSeconds = NoNumber \/ totalSeconds = parseFloat(CleanStr(videoDuration))
    ELSE totalSeconds = NoNumber /\ raised = InvalidDurationError

(***************************************************************************)
(* C11                                                                     *)
(***************************************************************************)
\* C11: a failure raised by any stage of a plan call reaches the caller
\* unchanged: the error the caller receives has the kind and the message
\* of the error the stage raised.
C11_FailureReachesCallerUnchanged ==
  pc = "threw" => thrown = raised

(***************************************************************************)
(* C12                                                                     *)
(***************************************************************************)
InvalidCredentialError == Err("Error", InvalidKeyMessage)

\* the gateway rejected the call with a message about the credential
GatewayRejectedCredential ==
  /\ raised \in GatewayErrors
  /\ raised.name # "NonError"
  /\ includes(raised.message, ApiKeyPhrase)

\* C12: a plan call fails with InvalidCredentialError when the gateway
\* fails with a credential-specific message and with GenerationFailedError
\* carrying the underlying message otherwise; a failure that is not the
\* gateway rejecting the credential is never reported as
\* InvalidCredentialError.
C12_InvalidCredentialOnlyFromGateway ==
  pc = "threw" =>
    /\ GatewayRejectedCredential => thrown = InvalidCredentialError
    /\ thrown = InvalidCredentialError => GatewayRejectedCredential


\* C13: whatever the user does and whenever the gateway answers, at most
\* one call of generatePromptFromRequest is in flight, isGenerating is true
\* while one is, and the generate button is disabled then, so that no
\* second generate can start.
C13_AtMostOneGenerateInFlight ==
  /\ Cardinality(InFlight) <= 1
  /\ InFlight # {} => isGenerating
  /\ isGenerating => GenerateDisabled /\ ~ENABLED handleGeneratePrompt

\* a second generate has been started, after the first one finished
C13_Witness ==
  /\ Len(calls) = 2
  /\ calls[1].st = "done"
  /\ calls[2].st = "awaiting"
  /\ isGenerating

\* the last call of generatePromptFromRequest
LastCall == calls[Len(calls)]

\* the value is a scene map the checks of the response accept
AcceptedSceneMap(v) ==
  v.t = "obj" /\ ~IsArray(v) /\ HasSceneKey(ObjectKeys(v))

\* C14: generatedScenes is set only when the latest generate has finished
\* with a scene map the validator accepted, and then it is that map; it is
\* null while a generate is in flight and after a failed one; an error
\* message and generatedScenes are never both set.
C14_ScenesOnlyFromLatestSuccess ==
  /\ generatedScenes # NoValue =>
       /\ calls # <<>>
       /\ LastCall.st = "done"
       /\ LastCall.thrown = NoError
       /\ generatedScenes = LastCall.returned
       /\ AcceptedSceneMap(generatedScenes)
  /\ InFlight # {} => generatedScenes = NoValue
  /\ (calls # <<>> /\ LastCall.st = "done" /\ LastCall.thrown # NoError) =>
       generatedScenes = NoValue
  /\ ~(error # NoMessage /\ generatedScenes # NoValue)

\* a generate is in flight after an earlier one has shown its scenes
C14_Witness ==
  /\ Len(calls) = 2
  /\ calls[1].st = "done"
  /\ calls[1].thrown = NoError
  /\ calls[2].st = "awaiting"
  /\ generatedScenes = NoValue

\* call i is in the given state
CallIs(i, st) == IF i <= Len(calls) THEN calls[i].st = st ELSE FALSE

\* the latest generate has finished
Finished == IF calls = <<>> THEN FALSE ELSE LastCall.st = "done"

\* the latest generate has finished with a failure
FinishedFailed == IF Finished THEN LastCall.thrown # NoError ELSE FALSE

\* after the latest generate, exactly one of generatedScenes and error is
\* set: the error after a failure, the scenes otherwise
OneOutcomeShown ==
  /\ ~isGenerating
  /\ (generatedScenes # NoValue) # (error # NoMessage)
  /\ FinishedFailed = (error # NoMessage)

\* C15: every generate whose gateway call settles ends with isGenerating
\* false and exactly one of generatedScenes and error set; isGenerating is
\* true only while a call is in flight; when a generate has failed, the
\* generate button is enabled again at once.
C15_EveryGenerateFinishes ==
  /\ [](isGenerating => InFlight # {})
  /\ [](Finished => OneOutcomeShown)
  /\ [][(Resume /\ FinishedFailed') => ~GenerateDisabled']_vars
  /\ \A i \in 1..MaxCalls :
       CallIs(i, "settled") ~> (CallIs(i, "done") /\ ~isGenerating)

\* a generate has failed at the gateway and the handler has finished
C15_Witness ==
  /\ FinishedFailed
  /\ error # NoMessage
  /\ generatedScenes = NoValue
  /\ ~isGenerating


=============================================================================
